---- MODULE Spec2Model ----
(***************************************************************************)
(* Model of the notes-to-sheets import pipeline.                           *)
(*                                                                         *)
(*   execution/processor.py   process_notes: the batching driver           *)
(*   execution/note.py        ProcessedNote: note_id, to_dict              *)
(*   keep/note_source.py      KeepNoteSource: has_more / fetch_next cursor *)
(*   storage/sheets_target.py GoogleSheetsTarget.write_notes_and_attachments*)
(*   keep/importer.py         main: the existing-notes index is built from *)
(*                            the two worksheets                           *)
(*                                                                         *)
(* One behaviour is a first run of process_notes over a source and a       *)
(* destination, optionally followed by a second run over the same source   *)
(* whose index is rebuilt from the destination the first run left.         *)
(***************************************************************************)
EXTENDS Integers, Sequences, FiniteSets, TLC

\* ------------------------------------------------------------------ bounds

\* Longest source (number of record files) explored.
MaxRecords == 3

\* Largest configured batch size explored (batch sizes 1..MaxBatchSize).
MaxBatchSize == 2

\* Largest positive max_batches limit explored.
MaxBatchLimit == 1

\* ------------------------------------------------------------- input sets

Titles == {"t1", "t2"}

Dates == {"d1"}

\* The 'attachments' and 'annotations' of a raw record that has any: an image
\* and a web link; and of one that has none.
RawPool ==
  [ attachments |-> << [filePath |-> "img1.png", mimetype |-> "image/png"] >>,
    annotations |-> << [source |-> "WEBLINK", url |-> "http://u1", title |-> "u1"] >> ]

RawNone == [attachments |-> <<>>, annotations |-> <<>>]

\* `mimetype.startswith('image/')`.
IsImageType(mimetype) == mimetype \in {"image/png", "image/jpeg"}

\* The annotation sources _process_attachments turns into links (line 281).
LinkSources == {"WEBLINK", "SHEETS", "DOCS", "GMAIL"}

RECURSIVE SelectSeq2(_, _)
\* The subsequence of seq of the elements whose 'source' is in S.
SelectSeq2(seq, S) ==
  IF seq = <<>> THEN <<>>
  ELSE IF Head(seq).source \in S THEN <<Head(seq)>> \o SelectSeq2(Tail(seq), S)
       ELSE SelectSeq2(Tail(seq), S)

\* _process_attachments 261-291: every file attachment becomes an Image, every
\* annotation of a listed source a Link; the other annotations are left out.
process_attachments(raw) ==
  LET links == SelectSeq2(raw.annotations, LinkSources)
  IN  [i \in 1..Len(raw.attachments) |->
         [File |-> raw.attachments[i].filePath, Type |-> "Image", Title |-> ""]]
      \o
      [i \in 1..Len(links) |->
         [File |-> links[i].url, Type |-> "Link", Title |-> links[i].title]]

\* get_json_content 27-33 (local_source.py; gcs_source.py 40-44): the filenames
\* recorded into _session_images when a file with these attachments is decoded.
RecordedImages(raw) ==
  { raw.attachments[i].filePath :
      i \in { j \in 1..Len(raw.attachments) : IsImageType(raw.attachments[j].mimetype) } }

\* The attachments of a record that has any, in record order: an image, then a
\* link.
AttachmentPool == process_attachments(RawPool)

RawLists == {RawNone, RawPool}

AttachmentLists == { process_attachments(raw) : raw \in RawLists }

\* What fetch_next does on one record file: it returns a ProcessedNote
\* ("note"), returns None because a processing action skipped the record
\* ("skip"), or raises ("error").  'images' is what decoding the file recorded;
\* 'ignored' (the fields handled with Ignore) and 'skipped_by' (the field whose
\* Skip discarded the record) are what _process_keep_note knew and
\* _load_and_process_note 68-73 did not hand on.
NoteRecords ==
  { [kind |-> "note", title |-> t, created_date |-> d,
     attachments |-> process_attachments(raw), error |-> "none",
     images |-> RecordedImages(raw), ignored |-> {}, skipped_by |-> "none"] :
      t \in Titles, d \in Dates, raw \in RawLists }

SkipRecord ==
  [kind |-> "skip", title |-> "", created_date |-> "", attachments |-> <<>>, error |-> "none",
   images |-> {}, ignored |-> {}, skipped_by |-> "trashed"]

ErrorRecord ==
  [kind |-> "error", title |-> "", created_date |-> "", attachments |-> <<>>,
   error |-> "ValueError", images |-> {}, ignored |-> {}, skipped_by |-> "none"]

Records == NoteRecords \cup {SkipRecord, ErrorRecord}

RECURSIVE SeqsUpTo(_, _)
SeqsUpTo(S, n) ==
  IF n = 0 THEN {<<>>}
  ELSE LET shorter == SeqsUpTo(S, n - 1)
       IN  shorter \cup { Append(s, x) : s \in {t \in shorter : Len(t) = n - 1}, x \in S }

Sources == SeqsUpTo(Records, MaxRecords)

BatchSizes == 1..MaxBatchSize

\* -1 is DEFAULT_MAX_BATCHES, "no limit" (the code tests max_batches > 0).
MaxBatchesChoices == {-1} \cup (1..MaxBatchLimit)

\* ----------------------------------------------------------- ProcessedNote

\* The first 8 hex digits of md5(title + "_" + created_date), as a table.
Digest ==
  (<<"t1", "d1">> :> "45eeddb2") @@ (<<"t2", "d1">> :> "9a0c11f3") @@
  (<<"t1", "1970-01-01 00:00:00">> :> "9d6e73fb") @@
  (<<"t1", "1970-01-01 00:00:01">> :> "d776b773") @@
  (<<"t1", "1970-01-01 01:00:00">> :> "47b2f0ea") @@
  (<<"t1", "1970-01-01 01:00:01">> :> "be1c5002") @@
  (<<"t2", "1970-01-01 00:00:00">> :> "b6583007") @@
  (<<"t2", "1970-01-01 00:00:01">> :> "65173b39") @@
  (<<"t2", "1970-01-01 01:00:00">> :> "dedfda7e") @@
  (<<"t2", "1970-01-01 01:00:01">> :> "2281d112")

note_id(note) == Digest[<<note.title, note.created_date>>]

NoteIds == { Digest[<<t, d>>] : t \in Titles, d \in Dates }

\* The row of the Notes worksheet (the columns the claims read).
to_dict(note) == [ID |-> note_id(note), Title |-> note.title, CreatedDate |-> note.created_date]

\* md5 of "<note_id>_<File>_", kept as the pair it is computed from.
GenerateId(nid, file) == <<nid, file>>

TargetAttachment(note, attachment) ==
  [ID    |-> GenerateId(note_id(note), attachment.File),
   Note  |-> note_id(note),
   File  |-> attachment.File,
   Type  |-> attachment.Type,
   Title |-> attachment.Title]

\* Mutation: only the first attachment of a note is staged.
TargetAttachments_FirstOnly(note) ==
  IF note.attachments = <<>> THEN <<>>
  ELSE << TargetAttachment(note, note.attachments[1]) >>

TargetAttachments(note) ==
  [i \in 1..Len(note.attachments) |-> TargetAttachment(note, note.attachments[i])]

\* ------------------------------------------------------------ worksheets

NotesHeader == [ID |-> "ID", Title |-> "Title", CreatedDate |-> "Created Date"]

AttachmentsHeader ==
  [ID |-> <<"ID">>, Note |-> "Note", File |-> "File", Type |-> "Type", Title |-> "Title"]

ColA(notes_ws) == [i \in 1..Len(notes_ws) |-> notes_ws[i].ID]

ColB(atts_ws) == [i \in 1..Len(atts_ws) |-> atts_ws[i].Note]

\* for note_id in col[1:]: if note_id: existing_notes[note_id] = value
RECURSIVE MarkAll(_, _, _)
MarkAll(index, cells, value) ==
  IF cells = <<>> THEN index
  ELSE LET c == Head(cells)
           next == IF c # ""
                   THEN [k \in DOMAIN index \cup {c} |-> IF k = c THEN value ELSE index[k]]
                   ELSE index
       IN  MarkAll(next, Tail(cells), value)

EmptyIndex == [k \in {} |-> FALSE]

BuildIndex(notes_ws, atts_ws) ==
  LET notes_col_a == ColA(notes_ws)
      attachments_col_b == ColB(atts_ws)
      seen == IF Len(notes_col_a) > 1
              THEN MarkAll(EmptyIndex, Tail(notes_col_a), FALSE)
              ELSE EmptyIndex
  IN  IF Len(attachments_col_b) > 1
      THEN MarkAll(seen, Tail(attachments_col_b), TRUE)
      ELSE seen

\* A destination the importer created and earlier imports left: the header
\* rows, then for each identifier either nothing, a note row, or a note row
\* and one attachment row.
ExistingRow(nid) == [ID |-> nid, Title |-> "old", CreatedDate |-> "old"]

ExistingAttachment(nid) ==
  [ID |-> GenerateId(nid, "old.png"), Note |-> nid, File |-> "old.png", Type |-> "Image", Title |-> ""]

IdOrder == <<"45eeddb2", "9a0c11f3">>

InitialNotes(N) ==
  <<NotesHeader>> \o
  SelectSeq([i \in 1..Len(IdOrder) |-> ExistingRow(IdOrder[i])], LAMBDA r : r.ID \in N)

InitialAttachments(A) ==
  <<AttachmentsHeader>> \o
  SelectSeq([i \in 1..Len(IdOrder) |-> ExistingAttachment(IdOrder[i])], LAMBDA r : r.Note \in A)

\* A spreadsheet GoogleSheetsTarget has just created: its first worksheet is
\* taken as the Notes worksheet as it is, with no header row appended, while
\* the Attachment worksheet is added with its header row.
FreshNotes == <<>>

\* ------------------------------------------------------------------ state

VARIABLES
  file_list,              \* KeepNoteSource._file_list, as what each file yields
  cursor_index,           \* KeepNoteSource._cursor_index
  notes_worksheet,        \* rows of the Notes worksheet
  attachments_worksheet,  \* rows of the Attachment worksheet, header first
  existing_notes,         \* the index passed to process_notes
  batch_size,
  max_batches,
  ignore_errors,
  staged_notes,
  staged_attachments,
  batched_note_id_count,
  total_batches,
  summary,
  pc,                     \* "loop", "broke", "done", "aborted"
  calls,                  \* the write_notes_and_attachments calls of this run
  run,                    \* 1: first run, 2: rerun over the same source
  first,                  \* how the first run ended (set when the rerun starts)
  session_images,         \* source_files._session_images
  index_read              \* how reading the columns for the index ended ("none": not read)

\* The image phase of process_notes and the images folder of the target.
VARIABLES
  sync_images,
  images_folder,          \* the target's images folder: name -> number of files of that name
  missing_images,         \* the missing images not handled yet
  image_calls,            \* the calls of the image phase, in order
  image_counts            \* saved_count and failed_count

\* The retry executor (exponential_backoff_with_retry), run on its own.
VARIABLES
  executor,               \* which of the two copies of the function runs
  max_retries,
  operation,              \* what the operation does on its 1st, 2nd, ... invocation
  attempt,                \* the loop variable
  invoked,                \* number of times operation() was called
  sleeps,                 \* number of time.sleep calls
  retry_pc,               \* "idle", "try", "sleep", "returned", "raised"
  raised,                 \* the error propagated to the caller, "none" if none
  base_delay,
  max_delay,
  delay,                  \* importer.py: the local `delay` carried from retry to retry
  delays,                 \* the delays computed before the jitter, one per sleep
  slept                   \* the arguments of time.sleep, in milliseconds

\* Note identifiers, computed run after run on machines of any time zone.
VARIABLES
  utc_offset,             \* seconds east of UTC of the local time zone of the current run
  converted               \* the records converted so far, each with what it became

\* The note transformer (KeepNoteSource._process_keep_note), run on one record.
VARIABLES
  note_data,              \* the raw record
  processing,             \* config['processing']: field -> action
  result                  \* what _process_keep_note did (kind "none" before the call)

\* The source cursor (KeepNoteSource), driven on its own.
VARIABLES
  origin,                 \* the record files of the source file manager, in listing order
  source_pc,              \* "none", "new" (not constructed yet), "ready"
  list_files_calls,       \* number of source_files.list_files() calls
  note_cache,             \* KeepNoteSource._note_cache: the positions cached
  last_call,              \* the last cursor call: operation, has_more() before it, result
  visited,                \* positions fetch_next loaded since the last reset
  previous_pass,          \* the same, up to the last reset
  resets                  \* number of reset() calls

image_vars == << sync_images, images_folder, missing_images, image_calls, image_counts >>

pipeline_vars ==
  << file_list, cursor_index, notes_worksheet, attachments_worksheet, existing_notes,
     batch_size, max_batches, ignore_errors, staged_notes, staged_attachments,
     batched_note_id_count, total_batches, summary, pc, calls, run, first, session_images,
     index_read, image_vars >>

retry_vars ==
  << executor, max_retries, operation, attempt, invoked, sleeps, retry_pc, raised,
     base_delay, max_delay, delay, delays, slept >>

identity_vars == << utc_offset, converted >>

\* The variables of the components that take no step while process_notes runs.
transform_vars == << note_data, processing, result >>

cursor_vars ==
  << origin, source_pc, list_files_calls, note_cache, last_call, visited, previous_pass, resets >>

\* process_notes' own share of pipeline_vars: all but the cursor's two fields.
driver_vars ==
  << notes_worksheet, attachments_worksheet, existing_notes, batch_size, max_batches,
     ignore_errors, staged_notes, staged_attachments, batched_note_id_count, total_batches,
     summary, pc, calls, run, first, session_images, index_read, image_vars >>

others == << retry_vars, transform_vars, cursor_vars, identity_vars, image_vars >>

vars == << pipeline_vars, others >>

config == << file_list, batch_size, max_batches, ignore_errors >>

NewSummary ==
  [processed |-> 0, imported |-> 0, duplicates |-> 0, errors |-> 0,
   attachments_added |-> 0, batches_completed |-> -1,
   ignored |-> [f \in {} |-> 0], skipped |-> [f \in {} |-> 0]]

NoFirst == [pc |-> "none", cursor_index |-> -1, notes |-> <<>>, attachments |-> <<>>, calls |-> <<>>]

\* No retry executor call is in progress.
RetryIdle ==
  /\ executor = "none"
  /\ max_retries = 0
  /\ operation = <<>>
  /\ attempt = 0
  /\ invoked = 0
  /\ sleeps = 0
  /\ retry_pc = "idle"
  /\ raised = "none"
  /\ base_delay = 1
  /\ max_delay = 64
  /\ delay = 0
  /\ delays = <<>>
  /\ slept = <<>>

\* No identifier has been computed.
IdentityIdle ==
  /\ utc_offset = 0
  /\ converted = <<>>

\* _process_keep_note has not been called.
NoResult ==
  [kind |-> "none", error |-> "none", labels |-> <<>>, content |-> <<>>,
   ignore_actions |-> <<>>, evaluated |-> <<>>]

\* No record is being transformed.
TransformIdle ==
  /\ note_data = "none"
  /\ processing = "none"
  /\ result = NoResult

\* The image filenames the model knows.
ImageNames == {"img1.png", "img2.png"}

\* An images folder holding one file of each name of D.
Folder(D) == [f \in ImageNames |-> IF f \in D THEN 1 ELSE 0]

NoCounts == [saved |-> 0, failed |-> 0]

\* The image phase has not run.
NoImagePhase ==
  /\ missing_images = {}
  /\ image_calls = <<>>
  /\ image_counts = NoCounts

NoCall == [op |-> "none", had_more |-> FALSE, result |-> "none"]

\* No cursor is driven on its own.
CursorIdle ==
  /\ origin = <<>>
  /\ source_pc = "none"
  /\ list_files_calls = 0
  /\ note_cache = {}
  /\ last_call = NoCall
  /\ visited = <<>>
  /\ previous_pass = <<>>
  /\ resets = 0

Init ==
  /\ RetryIdle
  /\ IdentityIdle
  /\ TransformIdle
  /\ CursorIdle
  /\ file_list \in Sources
  /\ cursor_index = -1
  /\ \/ \E N \in SUBSET NoteIds : \E A \in SUBSET N :
          /\ notes_worksheet = InitialNotes(N)
          /\ attachments_worksheet = InitialAttachments(A)
     \/ /\ notes_worksheet = FreshNotes
        /\ attachments_worksheet = InitialAttachments({})
  /\ existing_notes = BuildIndex(notes_worksheet, attachments_worksheet)
  /\ index_read = "ok"
  /\ batch_size \in BatchSizes
  /\ max_batches \in MaxBatchesChoices
  /\ ignore_errors \in BOOLEAN
  /\ staged_notes = <<>>
  /\ staged_attachments = <<>>
  /\ batched_note_id_count = 0
  /\ total_batches = 0
  /\ summary = NewSummary
  /\ pc = "loop"
  /\ calls = <<>>
  /\ run = 1
  /\ first = NoFirst
  /\ session_images = {}
  /\ sync_images = FALSE
  /\ images_folder = Folder({})
  /\ NoImagePhase

\* ----------------------------------------------------------- source cursor

has_more == cursor_index < Len(file_list) - 1

\* The record fetch_next loads after moving the cursor (file_list is 0-based
\* in the code, 1-based here).
NextRecord == file_list[cursor_index + 2]

\* Mutation: the cursor moves only when the record loads.
MoveCursor_OnSuccess(index, rec) == IF rec.kind = "error" THEN index ELSE index + 1

\* fetch_next 41: `self._cursor_index += 1`, before the file is loaded.
MoveCursor(index, rec) == index + 1

\* ------------------------------------------------------------------ target

\* How one write_notes_and_attachments call can end: both appends done, the
\* note append raised (nothing appended), or the attachment append raised
\* after the note rows were appended.
WriteOutcomes(notes, attachments) ==
  {"ok"} \cup (IF notes # <<>> THEN {"fail_notes"} ELSE {})
         \cup (IF attachments # <<>> THEN {"fail_attachments"} ELSE {})

\* Mutation: the attachment rows are appended although the note append raised.
write_notes_and_attachments_AttachmentsAnyway(notes, attachments, outcome, trigger) ==
  /\ notes_worksheet' =
       IF notes # <<>> /\ outcome # "fail_notes" THEN notes_worksheet \o notes
       ELSE notes_worksheet
  /\ attachments_worksheet' =
       IF attachments # <<>> /\ outcome # "fail_attachments"
       THEN attachments_worksheet \o attachments
       ELSE attachments_worksheet
  /\ calls' = Append(calls, [notes |-> notes, attachments |-> attachments,
                             outcome |-> outcome, trigger |-> trigger,
                             cursor_index |-> cursor_index'])

write_notes_and_attachments(notes, attachments, outcome, trigger) ==
  /\ notes_worksheet' =
       IF notes # <<>> /\ outcome # "fail_notes" THEN notes_worksheet \o notes
       ELSE notes_worksheet
  /\ attachments_worksheet' =
       IF attachments # <<>> /\ outcome = "ok" THEN attachments_worksheet \o attachments
       ELSE attachments_worksheet
  /\ calls' = Append(calls, [notes |-> notes, attachments |-> attachments,
                             outcome |-> outcome, trigger |-> trigger,
                             cursor_index |-> cursor_index'])

\* ------------------------------------------------------------ process_notes

\* Mutation: a counter of the summary is increased, 'processed' is not.
Bump_NotProcessed(field) == [summary EXCEPT ![field] = @ + 1]

\* Lines 65 and 77, 94, 115: one more record processed, and its counter.
Bump(field) == [summary EXCEPT ![field] = @ + 1, !.processed = @ + 1]

\* `continue`: the rest of the loop body, the flush check included, is skipped.
Continue(summ) ==
  /\ summary' = summ
  /\ pc' = "loop"
  /\ UNCHANGED << notes_worksheet, attachments_worksheet, staged_notes, staged_attachments,
                  batched_note_id_count, total_batches, calls >>

\* Mutation: the threshold counts the staged note rows (as the single-file
\* importer does), so a partial merge does not count.
CountStaged_NoteRows(count, notes) == Len(notes)

\* Lines 143-145: batched_note_id_count after an iteration that staged
\* something (writes_staged), whether a note row or only attachments.
CountStaged(count, notes) == count + 1

\* Mutation: the batch is flushed one note late.
BatchFull_Strict(count) == count > batch_size

\* Line 148.
BatchFull(count) == count >= batch_size

\* Mutation: the staged rows survive the flush.
ClearStaged_Keep(rows) == rows

\* Lines 156-158: staged_notes = [], staged_attachments = [].
ClearStaged(rows) == <<>>

\* Mutation: the loop stops one batch late.
LimitReached_OffByOne(total) == max_batches > 0 /\ total > max_batches

\* Line 162.
LimitReached(total) == max_batches > 0 /\ total >= max_batches

\* Mutation: with ignore_errors set a failed flush is passed over, as
\* flush_batch_to_sheet of the single-file importer does.
Propagates_UnlessIgnored(outcome) == outcome # "ok" /\ ~ignore_errors

\* Lines 150-152 and 168-170: write_notes_and_attachments is called outside
\* any try block, so whatever it raises leaves process_notes.
Propagates(outcome) == outcome # "ok"

\* Mutation: only an iteration that staged a note row counts as an import.
TrackImport_NoteRows(summ, notes) ==
  IF Len(notes) > Len(staged_notes) THEN [summ EXCEPT !.imported = @ + 1] ELSE summ

\* Lines 143-144: `if writes_staged: summary['imported'] += 1`, after a new
\* note as after a partial merge.
TrackImport(summ, notes) == [summ EXCEPT !.imported = @ + 1]

\* Lines 142-164: count the import, then flush if the batch is full.
TrackAndFlush(notes, attachments, summ) ==
  LET count == CountStaged(batched_note_id_count, notes)
      counted == TrackImport(summ, notes)
  IN  /\ summary' = counted
      /\ IF BatchFull(count)
         THEN IF notes # <<>> \/ attachments # <<>>
              THEN \E outcome \in WriteOutcomes(notes, attachments) :
                     /\ write_notes_and_attachments(notes, attachments, outcome, "batch")
                     /\ IF ~Propagates(outcome)
                        THEN /\ total_batches' = total_batches + 1
                             /\ staged_notes' = ClearStaged(notes)
                             /\ staged_attachments' = ClearStaged(attachments)
                             /\ batched_note_id_count' = 0
                             /\ pc' = IF LimitReached(total_batches') THEN "broke" ELSE "loop"
                        ELSE /\ total_batches' = total_batches
                             /\ staged_notes' = notes
                             /\ staged_attachments' = attachments
                             /\ batched_note_id_count' = count
                             /\ pc' = "aborted"
              ELSE /\ staged_notes' = ClearStaged(notes)
                   /\ staged_attachments' = ClearStaged(attachments)
                   /\ batched_note_id_count' = 0
                   /\ pc' = IF LimitReached(total_batches) THEN "broke" ELSE "loop"
                   /\ UNCHANGED << notes_worksheet, attachments_worksheet, total_batches, calls >>
         ELSE /\ staged_notes' = notes
              /\ staged_attachments' = attachments
              /\ batched_note_id_count' = count
              /\ pc' = "loop"
              /\ UNCHANGED << notes_worksheet, attachments_worksheet, total_batches, calls >>

\* Mutation: only the images of a record that yields a note are recorded.
ImagesOf_NotesOnly(rec) == IF rec.kind = "note" THEN rec.images ELSE {}

\* get_json_content 27-33 (local_source.py): the images recorded when the
\* record file is decoded.
ImagesOf(rec) == rec.images

\* Mutation: the record just read is entered into the index.
Iteration_RecordsSeen ==
  /\ pc = "loop"
  /\ has_more
  /\ cursor_index' = cursor_index + 1
  /\ existing_notes' =
       IF NextRecord.kind = "note"
       THEN [k \in DOMAIN existing_notes \cup {note_id(NextRecord)} |->
               IF k \in DOMAIN existing_notes THEN existing_notes[k] ELSE FALSE]
       ELSE existing_notes
  /\ session_images' = session_images \cup ImagesOf(NextRecord)
  /\ UNCHANGED << config, others, run, first, index_read >>

\* Lines 64-85: has_more(), then fetch_next(), which decodes the record file
\* (get_json_content records its images) and processes it.
Iteration ==
  /\ pc = "loop"
  /\ has_more
  /\ cursor_index' = MoveCursor(cursor_index, NextRecord)
  /\ session_images' = session_images \cup ImagesOf(NextRecord)
  /\ UNCHANGED << config, others, existing_notes, run, first, index_read >>

target_exists(note) == note_id(note) \in DOMAIN existing_notes

\* Mutation: the has-attachments flag of the index is never honoured.
target_has_attachments_Never(note) == FALSE

target_has_attachments(note) ==
  IF note_id(note) \in DOMAIN existing_notes THEN existing_notes[note_id(note)] ELSE FALSE

\* Mutation: an error of fetch_next is re-raised whatever ignore_errors is.
ErrorFatal_Always == TRUE

\* Lines 79-80: `if not ignore_errors: raise`.
ErrorFatal == ~ignore_errors

\* fetch_next raised.
LoadError ==
  /\ Iteration
  /\ NextRecord.kind = "error"
  /\ summary' = Bump("errors")
  /\ pc' = IF ErrorFatal THEN "aborted" ELSE "loop"
  /\ UNCHANGED << notes_worksheet, attachments_worksheet, staged_notes, staged_attachments,
                  batched_note_id_count, total_batches, calls >>

\* fetch_next returned None.
SkippedNote ==
  /\ Iteration
  /\ NextRecord.kind = "skip"
  /\ Continue([summary EXCEPT !.processed = @ + 1])

CompleteDuplicate ==
  /\ Iteration
  /\ NextRecord.kind = "note"
  /\ target_exists(NextRecord) /\ target_has_attachments(NextRecord)
  /\ Continue(Bump("duplicates"))

DuplicateWithoutAttachments ==
  /\ Iteration
  /\ NextRecord.kind = "note"
  /\ target_exists(NextRecord) /\ ~target_has_attachments(NextRecord)
  /\ NextRecord.attachments = <<>>
  /\ Continue(Bump("duplicates"))

\* Mutation: the partial merge also stages the note row (as the single-file
\* importer does).
PartialMerge_StagesNoteRow ==
  /\ Iteration
  /\ NextRecord.kind = "note"
  /\ target_exists(NextRecord) /\ ~target_has_attachments(NextRecord)
  /\ NextRecord.attachments # <<>>
  /\ TrackAndFlush(Append(staged_notes, to_dict(NextRecord)),
                   staged_attachments \o TargetAttachments(NextRecord),
                   Bump("attachments_added"))

PartialMerge ==
  /\ Iteration
  /\ NextRecord.kind = "note"
  /\ target_exists(NextRecord) /\ ~target_has_attachments(NextRecord)
  /\ NextRecord.attachments # <<>>
  /\ TrackAndFlush(staged_notes,
                   staged_attachments \o TargetAttachments(NextRecord),
                   Bump("attachments_added"))

NewNote ==
  /\ Iteration
  /\ NextRecord.kind = "note"
  /\ ~target_exists(NextRecord)
  /\ TrackAndFlush(Append(staged_notes, to_dict(NextRecord)),
                   staged_attachments \o TargetAttachments(NextRecord),
                   [summary EXCEPT !.processed = @ + 1])

\* Mutation: the image phase is entered whatever sync_images is.
ImagePhaseDue_Always == TRUE

\* Line 175: `if sync_images:`.
ImagePhaseDue == sync_images

\* Mutation: the last flush is left out of the count.
Returned_OneShort(summ, batches) ==
  [summ EXCEPT !.batches_completed = IF batches > 0 THEN batches - 1 ELSE 0]

\* Lines 237-254: batches_completed is entered and the summary returned.
Returned(summ, batches) == [summ EXCEPT !.batches_completed = batches]

\* Lines 166-175: the loop is over (source exhausted or break); flush what is
\* left, then enter the image phase if sync_images is set, else return the
\* summary (lines 237-254).
FinalFlush ==
  /\ \/ pc = "loop" /\ ~has_more
     \/ pc = "broke"
  /\ UNCHANGED << config, others, existing_notes, run, first, index_read, cursor_index,
                  batched_note_id_count, session_images >>
  /\ IF staged_notes # <<>> \/ staged_attachments # <<>>
     THEN \E outcome \in WriteOutcomes(staged_notes, staged_attachments) :
            /\ write_notes_and_attachments(staged_notes, staged_attachments, outcome, "final")
            /\ UNCHANGED << staged_notes, staged_attachments >>
            /\ IF ~Propagates(outcome)
               THEN /\ total_batches' = total_batches + 1
                    /\ IF ImagePhaseDue
                       THEN pc' = "images" /\ UNCHANGED summary
                       ELSE pc' = "done" /\ summary' = Returned(summary, total_batches')
               ELSE /\ UNCHANGED << total_batches, summary >>
                    /\ pc' = "aborted"
     ELSE /\ IF ImagePhaseDue
             THEN pc' = "images" /\ UNCHANGED summary
             ELSE pc' = "done" /\ summary' = Returned(summary, total_batches)
          /\ UNCHANGED << notes_worksheet, attachments_worksheet, staged_notes,
                          staged_attachments, total_batches, calls >>

\* The pipeline is started again over the same source: importer.py main
\* rebuilds the index from the worksheets, process_notes starts afresh.
Rerun ==
  /\ run = 1
  /\ pc \in {"done", "aborted"}
  /\ run' = 2
  /\ first' = [pc |-> pc, cursor_index |-> cursor_index, notes |-> notes_worksheet,
               attachments |-> attachments_worksheet, calls |-> calls]
  /\ existing_notes' = BuildIndex(notes_worksheet, attachments_worksheet)
  /\ cursor_index' = -1
  /\ staged_notes' = <<>>
  /\ staged_attachments' = <<>>
  /\ batched_note_id_count' = 0
  /\ total_batches' = 0
  /\ summary' = NewSummary
  /\ pc' = "loop"
  /\ calls' = <<>>
  /\ session_images' = {}
  /\ index_read' = "ok"
  /\ UNCHANGED << config, others, notes_worksheet, attachments_worksheet >>

Next ==
  \/ LoadError
  \/ SkippedNote
  \/ CompleteDuplicate
  \/ DuplicateWithoutAttachments
  \/ PartialMerge
  \/ NewNote
  \/ FinalFlush
  \/ Rerun

Spec == Init /\ [][Next]_vars

\* ------------------------------------------------------ existing-state index

\* A note row whose ID cell is empty.
BlankRow == [ID |-> "", Title |-> "old", CreatedDate |-> "old"]

\* The Notes worksheet importer.py main finds: the header row, the rows of the
\* identifiers of N and, with `blank`, a row without identifier.
IndexNotes(N, blank) == InitialNotes(N) \o (IF blank THEN <<BlankRow>> ELSE <<>>)

\* How reading the two columns ends: both are read, col_values(1) of the Notes
\* worksheet raises, or col_values(2) of the Attachment worksheet raises.
ColumnReads == {"ok", "col_a_raised", "col_b_raised"}

\* Mutation: when the attachment column cannot be read, the entries of the note
\* column are kept.
build_existing_notes_KeepsPartial(outcome) ==
  IF outcome = "ok" THEN BuildIndex(notes_worksheet, attachments_worksheet)
  ELSE IF outcome = "col_b_raised" THEN BuildIndex(notes_worksheet, <<>>)
  ELSE EmptyIndex

\* importer.py 383-402: the index of a successful read; `existing_notes = {}`
\* of the except clause otherwise.
build_existing_notes(outcome) ==
  IF outcome = "ok" THEN BuildIndex(notes_worksheet, attachments_worksheet) ELSE EmptyIndex

\* The importer starts on a destination whose Attachment worksheet may hold
\* rows of notes that have no row (any more) in the Notes worksheet; the index
\* is not built yet.
InitIndex ==
  /\ RetryIdle
  /\ IdentityIdle
  /\ TransformIdle
  /\ CursorIdle
  /\ file_list \in Sources
  /\ cursor_index = -1
  /\ \E N \in SUBSET NoteIds : \E A \in SUBSET NoteIds : \E blank \in BOOLEAN :
       /\ notes_worksheet = IndexNotes(N, blank)
       /\ attachments_worksheet = InitialAttachments(A)
  /\ existing_notes = EmptyIndex
  /\ index_read = "none"
  /\ batch_size \in BatchSizes
  /\ max_batches \in MaxBatchesChoices
  /\ ignore_errors \in BOOLEAN
  /\ staged_notes = <<>>
  /\ staged_attachments = <<>>
  /\ batched_note_id_count = 0
  /\ total_batches = 0
  /\ summary = NewSummary
  /\ pc = "index"
  /\ calls = <<>>
  /\ run = 1
  /\ first = NoFirst
  /\ session_images = {}
  /\ sync_images = FALSE
  /\ images_folder = Folder({})
  /\ NoImagePhase

\* importer.py 382-402, then the loop over the records starts.
BuildExistingNotes ==
  /\ pc = "index"
  /\ \E outcome \in ColumnReads :
       /\ index_read' = outcome
       /\ existing_notes' = build_existing_notes(outcome)
  /\ pc' = "loop"
  /\ UNCHANGED << config, others, cursor_index, notes_worksheet, attachments_worksheet,
                  staged_notes, staged_attachments, batched_note_id_count, total_batches,
                  summary, calls, run, first, session_images >>

NextIndex ==
  \/ BuildExistingNotes
  \/ LoadError
  \/ SkippedNote
  \/ CompleteDuplicate
  \/ DuplicateWithoutAttachments
  \/ PartialMerge
  \/ NewNote
  \/ FinalFlush

SpecIndex == InitIndex /\ [][NextIndex]_vars

\* ---------------------------------------------------------- retry executor

\* Most retries explored (the code's default of max_retries is 5).
MaxRetries == 2

\* exponential_backoff_with_retry exists twice: storage/sheets_target.py 7-47,
\* which GoogleSheetsTarget uses, and keep/importer.py 85-121.
Executors == {"sheets_target", "importer"}

\* The errors an operation raises: a rate-limit answer and a permanent one.
Errors == {"HttpError 429", "HttpError 404"}

\* importer.py 109: "429" in str(e)
Contains429(e) == e = "HttpError 429"

\* What one invocation of the operation does: it returns or raises an error.
Operations(n) == [1..n -> {"ok"} \cup Errors]

\* Mutation: the executor gives up one attempt early.
LastAttempt_OneEarly(a) == a >= max_retries - 1

\* sheets_target.py 31, importer.py 109: attempt == max_retries
LastAttempt(a) == a = max_retries

\* Whether the error e of attempt a is re-raised at once.  sheets_target.py
\* 28-33 looks at the attempt number only; importer.py 108-110 also re-raises
\* an error whose text lacks "429".
Reraise(e, a) ==
  IF executor = "importer" THEN ~Contains429(e) \/ LastAttempt(a)
  ELSE LastAttempt(a)

\* The base_delay and max_delay a call is made with (the defaults are 1 and 64).
BaseDelays == {1, 3}

MaxDelays == {8, 64}

RECURSIVE Pow2(_)
\* 2 ** n
Pow2(n) == IF n = 0 THEN 1 ELSE 2 * Pow2(n - 1)

Min(a, b) == IF a <= b THEN a ELSE b

\* Mutation: the delay doubles without a cap.
BackoffDelay_Uncapped(base, cap, n) == base * Pow2(n)

\* sheets_target.py 36: delay = min(base_delay * (2 ** attempt), max_delay)
BackoffDelay(base, cap, n) == Min(base * Pow2(n), cap)

\* importer.py 118: delay = min(delay * 2, max_delay)
DoubledDelay(d, cap) == Min(d * 2, cap)

\* importer.py 101 sets `delay = base_delay` before the loop; sheets_target.py
\* has no such variable until the first retry (0 stands for "not assigned").
FirstDelay == IF executor = "importer" THEN base_delay ELSE 0

\* The delay of the retry after attempt number `attempt`, before the jitter:
\* the running `delay` in importer.py, line 36 in sheets_target.py.
ComputedDelay ==
  IF executor = "importer" THEN delay ELSE BackoffDelay(base_delay, max_delay, attempt)

\* Seconds as milliseconds, the unit the jitter is counted in.
Ms(seconds) == seconds * 1000

\* Mutation: the jitter of sheets_target.py is a fifth of the delay.
SignedJitter_Fifth(d, n) == (Ms(d) \div 5) * (2 * (n % 2) - 1)

\* sheets_target.py 39: jitter = delay * 0.1 * (2 * (attempt % 2) - 1)
SignedJitter(d, n) == (Ms(d) \div 10) * (2 * (n % 2) - 1)

\* importer.py 113: jitter = random.uniform(0, 0.1 * delay), as the two ends of
\* the interval and its middle.
RandomJitter(d) == {0, Ms(d) \div 20, Ms(d) \div 10}

\* What time.sleep can be called with after attempt number `attempt`:
\* sheets_target.py 40 `delay += jitter`; importer.py 114
\* actual_delay = min(delay + jitter, max_delay).
SleepArguments ==
  IF executor = "importer"
  THEN { Min(Ms(delay) + jitter, Ms(max_delay)) : jitter \in RandomJitter(delay) }
  ELSE { Ms(ComputedDelay) + SignedJitter(ComputedDelay, attempt) }

\* No run of process_notes is in progress.
PipelineIdle ==
  /\ file_list = <<>>
  /\ cursor_index = -1
  /\ notes_worksheet = <<>>
  /\ attachments_worksheet = <<>>
  /\ existing_notes = EmptyIndex
  /\ batch_size = 1
  /\ max_batches = -1
  /\ ignore_errors = FALSE
  /\ staged_notes = <<>>
  /\ staged_attachments = <<>>
  /\ batched_note_id_count = 0
  /\ total_batches = 0
  /\ summary = NewSummary
  /\ pc = "idle"
  /\ index_read = "none"
  /\ calls = <<>>
  /\ run = 1
  /\ first = NoFirst
  /\ session_images = {}
  /\ sync_images = FALSE
  /\ images_folder = Folder({})
  /\ NoImagePhase

InitRetry ==
  /\ PipelineIdle
  /\ IdentityIdle
  /\ TransformIdle
  /\ CursorIdle
  /\ executor \in Executors
  /\ max_retries \in 0..MaxRetries
  /\ operation \in Operations(max_retries + 1)
  /\ attempt = 0
  /\ invoked = 0
  /\ sleeps = 0
  /\ retry_pc = "try"
  /\ raised = "none"
  /\ base_delay \in BaseDelays
  /\ max_delay \in MaxDelays
  /\ delay = FirstDelay
  /\ delays = <<>>
  /\ slept = <<>>

\* One pass through the try block: return operation(), or handle what it raised.
RetryAttempt ==
  /\ retry_pc = "try"
  /\ invoked' = invoked + 1
  /\ IF operation[attempt + 1] = "ok"
     THEN retry_pc' = "returned" /\ raised' = raised
     ELSE IF Reraise(operation[attempt + 1], attempt)
          THEN retry_pc' = "raised" /\ raised' = operation[attempt + 1]
          ELSE retry_pc' = "sleep" /\ raised' = raised
  /\ UNCHANGED << pipeline_vars, transform_vars, identity_vars, cursor_vars, executor,
                  max_retries, operation, attempt, sleeps, base_delay, max_delay, delay, delays,
                  slept >>

\* The delay is computed, time.sleep is called, then comes the next iteration
\* of the for loop (in importer.py with `delay` doubled up to max_delay).
RetrySleep ==
  /\ retry_pc = "sleep"
  /\ sleeps' = sleeps + 1
  /\ delays' = Append(delays, ComputedDelay)
  /\ \E actual_delay \in SleepArguments : slept' = Append(slept, actual_delay)
  /\ delay' = IF executor = "importer" THEN DoubledDelay(delay, max_delay) ELSE ComputedDelay
  /\ attempt' = attempt + 1
  /\ retry_pc' = "try"
  /\ UNCHANGED << pipeline_vars, transform_vars, identity_vars, cursor_vars, executor,
                  max_retries, operation, invoked, raised, base_delay, max_delay >>

NextRetry ==
  \/ RetryAttempt
  \/ RetrySleep

SpecRetry == InitRetry /\ [][NextRetry]_vars

\* Most retries of a call that is rate-limited again and again.
MaxBackoffRetries == 8

\* An operation that answers 429 on every invocation but, at most, the last.
RateLimited(n) ==
  { [i \in 1..n |-> IF i = n THEN last ELSE "HttpError 429"] : last \in {"ok", "HttpError 429"} }

\* A call with a long run of rate-limit answers, so that the delay reaches
\* max_delay and stays there.
InitBackoff ==
  /\ PipelineIdle
  /\ IdentityIdle
  /\ TransformIdle
  /\ CursorIdle
  /\ executor \in Executors
  /\ max_retries \in 0..MaxBackoffRetries
  /\ operation \in RateLimited(max_retries + 1)
  /\ attempt = 0
  /\ invoked = 0
  /\ sleeps = 0
  /\ retry_pc = "try"
  /\ raised = "none"
  /\ base_delay \in BaseDelays
  /\ max_delay \in MaxDelays
  /\ delay = FirstDelay
  /\ delays = <<>>
  /\ slept = <<>>

NextBackoff ==
  \/ RetryAttempt
  \/ RetrySleep

SpecBackoff == InitBackoff /\ [][NextBackoff]_vars

\* ---------------------------------------------------------- note identifier

\* Most records converted in one exploration.
MaxConverted == 2

\* createdTimestampUsec and userEditedTimestampUsec of the records: the epoch
\* and one second and a half after it, in microseconds.
Timestamps == {0, 1500000}

\* The local time zones of the machines the importer runs on, as seconds east
\* of UTC: UTC and UTC+1.
UtcOffsets == {0, 3600}

\* strftime('%Y-%m-%d %H:%M:%S') of a wall-clock second of 1970-01-01.
Strftime ==
  (0 :> "1970-01-01 00:00:00") @@ (1 :> "1970-01-01 00:00:01") @@
  (3600 :> "1970-01-01 01:00:00") @@ (3601 :> "1970-01-01 01:00:01")

\* _format_timestamp 293-304: the microseconds are cut to seconds and
\* datetime.fromtimestamp turns them into the wall-clock time of the local
\* time zone.  (Every record of an export carries both timestamps.)
format_timestamp(timestamp_usec, offset) == Strftime[(timestamp_usec \div 1000000) + offset]

\* What else a record holds besides title and created timestamp.
Variants ==
  { [edited |-> 0, text |-> "", labels |-> <<>>, raw |-> RawNone],
    [edited |-> 1500000, text |-> "plain", labels |-> <<"user1">>, raw |-> RawPool] }

IdentityRecords ==
  { [title |-> t, createdTimestampUsec |-> c, userEditedTimestampUsec |-> v.edited,
     textContent |-> v.text, labels |-> v.labels, raw |-> v.raw] :
      t \in Titles, c \in Timestamps, v \in Variants }

\* _process_keep_note 109-146 for a record nothing is flagged in, on a machine
\* `offset` seconds east of UTC, and the owner process_notes 128-137 writes into
\* the row of each attachment.
keep_note(data, offset) ==
  LET note == [title |-> data.title,
               content |-> data.textContent,
               labels |-> data.labels,
               created_date |-> format_timestamp(data.createdTimestampUsec, offset),
               modified_date |-> format_timestamp(data.userEditedTimestampUsec, offset),
               attachments |-> process_attachments(data.raw)]
      rows == TargetAttachments(note)
  IN  [data |-> data, note |-> note, note_id |-> note_id(note),
       owners |-> { rows[i].Note : i \in 1..Len(rows) }]

InitIdentity ==
  /\ PipelineIdle
  /\ RetryIdle
  /\ TransformIdle
  /\ CursorIdle
  /\ utc_offset \in UtcOffsets
  /\ converted = <<>>

\* One record is converted on the machine of the current run.
Convert ==
  /\ Len(converted) < MaxConverted
  /\ \E data \in IdentityRecords : converted' = Append(converted, keep_note(data, utc_offset))
  /\ UNCHANGED << pipeline_vars, retry_vars, transform_vars, cursor_vars, utc_offset >>

\* The next run is made on a machine of another time zone.
NextMachine ==
  /\ \E offset \in UtcOffsets \ {utc_offset} : utc_offset' = offset
  /\ UNCHANGED << pipeline_vars, retry_vars, transform_vars, cursor_vars, converted >>

NextIdentity ==
  \/ Convert
  \/ NextMachine

SpecIdentity == InitIdentity /\ [][NextIdentity]_vars

\* -------------------------------------------------------- note transformer

\* Most fields of one record that carry a non-default value.
MaxFlagged == 3

\* field_configs, in evaluation order (note_source.py 154-171).
FieldOrder == << "trashed", "archived", "pinned", "color", "html_content", "shared", "received" >>

Fields == { FieldOrder[i] : i \in 1..Len(FieldOrder) }

Actions == {"label", "error", "skip", "ignore"}

\* The 'listContent' of a record that has a checklist.
Checklist == << [text |-> "a", isChecked |-> TRUE], [text |-> "b", isChecked |-> FALSE] >>

\* A body is a sequence of lines: a line of plain text, the raw rich content, a
\* checklist line (glyph and item text), or the empty line between two parts.
TextLine(text) == << "text", text >>

HtmlLine(html) == << "html", html >>

BlankLine == << "blank" >>

ItemLine(item) == << IF item.isChecked THEN "checked" ELSE "unchecked", item.text >>

HasText(item) == item.text # ""

\* _format_checklist_items 245-254: one line per item that has a text.
format_checklist_items(list_content) ==
  LET items == SelectSeq(list_content, HasText)
  IN  [i \in 1..Len(items) |-> ItemLine(items[i])]

\* Lines 109-122: the plain text, then the checklist, joined by an empty line.
InitialContent(data) ==
  LET text == IF data.textContent # "" THEN << TextLine(data.textContent) >> ELSE <<>>
      list == format_checklist_items(data.listContent)
  IN  IF text # <<>> /\ list # <<>> THEN text \o << BlankLine >> \o list
      ELSE text \o list

\* The raw record, as far as the field rules read it.  sharees is "none" (no
\* sharee), "owner" (some sharee has isOwner) or "others" (sharees, none the
\* owner); textContentHtml is "absent" when the key is missing.
RawRecords ==
  [ isTrashed : BOOLEAN, isArchived : BOOLEAN, isPinned : BOOLEAN,
    color : {"DEFAULT", "RED"}, textContentHtml : {"absent", "<p>x</p>"},
    sharees : {"none", "owner", "others"}, labels : {<<>>, <<"user1", "user2">>},
    textContent : {"", "plain"}, listContent : {<<>>, Checklist} ]

\* _process_field 214-228: the field's value differs from its default.
has_value(data, field) ==
  CASE field = "trashed"      -> data.isTrashed
    [] field = "archived"     -> data.isArchived
    [] field = "pinned"       -> data.isPinned
    [] field = "color"        -> data.color # "DEFAULT"
    [] field = "html_content" -> data.textContentHtml # "absent"
    [] field = "shared"       -> data.sharees = "owner"
    [] field = "received"     -> data.sharees = "others"

Flagged(data) == { f \in Fields : has_value(data, f) }

\* config['labels'] (importer.py get_default_config 60-66) and the labels the
\* data modifiers of color and html_content derive.
LabelOf(data, field) ==
  CASE field = "trashed"      -> "Trashed"
    [] field = "archived"     -> "Archived"
    [] field = "pinned"       -> "Pinned"
    [] field = "color"        -> "Red"
    [] field = "html_content" -> "HTML"
    [] field = "shared"       -> "Shared"
    [] field = "received"     -> "Received"

\* config['processing'] of get_default_config (importer.py 52-59), which has
\* no entry for received: reading it raises KeyError ("absent").
DefaultProcessing ==
  [ f \in Fields |->
      CASE f = "trashed"      -> "skip"
        [] f = "archived"     -> "skip"
        [] f = "pinned"       -> "label"
        [] f = "color"        -> "label"
        [] f = "html_content" -> "ignore"
        [] f = "shared"       -> "label"
        [] f = "received"     -> "absent" ]

\* The configurations explored for a record: any action for each field the
\* record has a value in (the only entries the code reads), the default for the
\* others.
ProcessingsFor(data) ==
  { p \in [Fields -> Actions \cup {"absent"}] :
      \A f \in Fields :
        /\ f \notin Flagged(data) => p[f] = DefaultProcessing[f]
        /\ p[f] = "absent" => f = "received" }

\* ignore_actions, labels_list, skipped (95-150), and the fields _process_field
\* was called for.
NewNoteState ==
  [ labels_list |-> <<>>, ignore_actions |-> [f \in Fields |-> 0], skipped |-> FALSE,
    error |-> "none", evaluated |-> <<>>, content |-> <<>> ]

\* Mutation: an ignored field is not counted.
Ignored_NotCounted(st, field) == st

\* Lines 236-238: `ignore_actions[field_name] += 1`.
Ignored(st, field) == [st EXCEPT !.ignore_actions[field] = @ + 1]

\* Mutation: the Label action derives no label.
data_modifier_NoLabel(data, field, st) == st

\* The data modifier of a field (lines 155-171); _handle_html_content 256-259
\* also replaces the body by the raw rich content.
data_modifier(data, field, st) ==
  LET labelled == [st EXCEPT !.labels_list = Append(@, LabelOf(data, field))]
  IN  IF field = "html_content"
      THEN [labelled EXCEPT !.content = << HtmlLine(data.textContentHtml) >>]
      ELSE labelled

\* _process_field 196-243 for one field.
process_field(data, proc, field, st) ==
  LET seen == [st EXCEPT !.evaluated = Append(@, field)]
  IN  IF ~has_value(data, field) THEN seen
      ELSE CASE proc[field] = "absent" -> [seen EXCEPT !.error = "KeyError"]
             [] proc[field] = "error"  -> [seen EXCEPT !.error = "ValueError"]
             [] proc[field] = "skip"   -> [seen EXCEPT !.skipped = TRUE]
             [] proc[field] = "ignore" -> Ignored(seen, field)
             [] proc[field] = "label"  -> data_modifier(data, field, seen)

\* Mutation: the loop never leaves early on a skipped note.
EarlyExit_Never(st) == FALSE

\* Line 179: if processed_note.skipped
EarlyExit(st) == st.skipped

\* The loop of lines 174-180 from field number i on.
RECURSIVE process_fields(_, _, _, _)
process_fields(data, proc, i, st) ==
  IF i > Len(FieldOrder) THEN st
  ELSE LET after == process_field(data, proc, FieldOrder[i], st)
       IN  IF after.error # "none" \/ EarlyExit(after) THEN after
           ELSE process_fields(data, proc, i + 1, after)

\* Lines 182-187: the user's labels are appended to labels_list.
UserLabelsLast(labels_list, data) == labels_list \o data.labels

\* _process_keep_note 88-194: the exception it raises, the skip signal
\* (None, ignore_actions), or the note with its labels (rule-derived labels,
\* then the user's).
process_keep_note(data, proc) ==
  LET st == process_fields(data, proc, 1, [NewNoteState EXCEPT !.content = InitialContent(data)])
  IN  IF st.error # "none"
      THEN [kind |-> "error", error |-> st.error, labels |-> <<>>, content |-> <<>>,
            ignore_actions |-> st.ignore_actions, evaluated |-> st.evaluated]
      ELSE IF st.skipped
      THEN [kind |-> "skip", error |-> "none", labels |-> st.labels_list, content |-> <<>>,
            ignore_actions |-> st.ignore_actions, evaluated |-> st.evaluated]
      ELSE [kind |-> "note", error |-> "none", labels |-> UserLabelsLast(st.labels_list, data),
            content |-> st.content,
            ignore_actions |-> st.ignore_actions, evaluated |-> st.evaluated]

InitTransform ==
  /\ PipelineIdle
  /\ IdentityIdle
  /\ RetryIdle
  /\ CursorIdle
  /\ note_data \in { d \in RawRecords : Cardinality(Flagged(d)) <= MaxFlagged }
  /\ processing \in ProcessingsFor(note_data)
  /\ result = NoResult

Transform ==
  /\ result = NoResult
  /\ result' = process_keep_note(note_data, processing)
  /\ UNCHANGED << pipeline_vars, retry_vars, cursor_vars, identity_vars, note_data, processing >>

NextTransform == Transform

SpecTransform == InitTransform /\ [][NextTransform]_vars

\* ------------------------------------- note transformer, single-file importer

\* The attributes note_processor.process_note examines, in order (lines 122-211).
LegacyOrder == << "trashed", "archived", "pinned", "color", "html_content", "shared" >>

\* The keys of its ignore_actions (lines 113-120).
LegacyKey(field) == IF field = "html_content" THEN "html" ELSE field

LegacyKeys == { LegacyKey(LegacyOrder[i]) : i \in 1..Len(LegacyOrder) }

\* The conditions of lines 123, 136, 149, 163, 176 and 193.
legacy_has_value(data, field) ==
  CASE field = "trashed"      -> data.isTrashed
    [] field = "archived"     -> data.isArchived
    [] field = "pinned"       -> data.isPinned
    [] field = "color"        -> data.color # "DEFAULT"
    [] field = "html_content" -> data.textContentHtml \notin {"absent", ""}
    [] field = "shared"       -> data.sharees # "none"

\* The label appended under action Label (lines 130, 143, 156, 170, 184, 200-204).
LegacyLabelOf(data, field) ==
  CASE field = "trashed"      -> "Trashed"
    [] field = "archived"     -> "Archived"
    [] field = "pinned"       -> "Pinned"
    [] field = "color"        -> data.color
    [] field = "html_content" -> "HTML"
    [] field = "shared"       -> IF data.sharees = "owner" THEN "Shared" ELSE "Received"

\* format_checklist_items 72-85 (note_processor.py): one line per item.
legacy_format_checklist_items(list_content) ==
  [i \in 1..Len(list_content) |-> ItemLine(list_content[i])]

\* label_names starts as the user's labels (line 110); text_content is the plain
\* text unless the rich content is labelled (lines 176-190).
LegacyNoteState(data) ==
  [ labels_list |-> data.labels, ignore_actions |-> [k \in LegacyKeys |-> 0],
    skipped |-> FALSE, error |-> "none", evaluated |-> <<>>,
    content |-> IF data.textContent # "" THEN << TextLine(data.textContent) >> ELSE <<>> ]

\* One of the six attribute blocks of lines 122-206.
legacy_field(data, proc, field, st) ==
  LET seen == [st EXCEPT !.evaluated = Append(@, field)]
  IN  IF ~legacy_has_value(data, field) THEN seen
      ELSE CASE proc[field] = "error"  -> [seen EXCEPT !.error = "ValueError"]
             [] proc[field] = "skip"   -> [seen EXCEPT !.skipped = TRUE]
             [] proc[field] = "ignore" -> [seen EXCEPT !.ignore_actions[LegacyKey(field)] = 1]
             [] proc[field] = "label"  ->
                  LET labelled == [seen EXCEPT !.labels_list = Append(@, LegacyLabelOf(data, field))]
                  IN  IF field = "html_content"
                      THEN [labelled EXCEPT !.content = << HtmlLine(data.textContentHtml) >>]
                      ELSE labelled

RECURSIVE legacy_fields(_, _, _, _)
legacy_fields(data, proc, i, st) ==
  IF i > Len(LegacyOrder) THEN st
  ELSE LET after == legacy_field(data, proc, LegacyOrder[i], st)
       IN  IF after.error # "none" \/ after.skipped THEN after
           ELSE legacy_fields(data, proc, i + 1, after)

\* note_processor.process_note 88-240: the checklist, if any, replaces the body
\* (lines 209-210).
process_note(data, proc) ==
  LET st == legacy_fields(data, proc, 1, LegacyNoteState(data))
  IN  IF st.error # "none"
      THEN [kind |-> "error", error |-> st.error, labels |-> <<>>, content |-> <<>>,
            ignore_actions |-> st.ignore_actions, evaluated |-> st.evaluated]
      ELSE IF st.skipped
      THEN [kind |-> "skip", error |-> "none", labels |-> <<>>, content |-> <<>>,
            ignore_actions |-> st.ignore_actions, evaluated |-> st.evaluated]
      ELSE [kind |-> "note", error |-> "none", labels |-> st.labels_list,
            content |-> IF data.listContent # <<>>
                        THEN legacy_format_checklist_items(data.listContent)
                        ELSE st.content,
            ignore_actions |-> st.ignore_actions, evaluated |-> st.evaluated]

\* importer.py main 549: process_note(note_data, config) on one record.
TransformLegacy ==
  /\ result = NoResult
  /\ result' = process_note(note_data, processing)
  /\ UNCHANGED << pipeline_vars, retry_vars, cursor_vars, identity_vars, note_data, processing >>

NextLegacy == TransformLegacy

SpecLegacy == InitTransform /\ [][NextLegacy]_vars

\* ------------------------------------------------------- Keep record files

\* A record with no field set.
PlainData ==
  [ isTrashed |-> FALSE, isArchived |-> FALSE, isPinned |-> FALSE, color |-> "DEFAULT",
    textContentHtml |-> "absent", sharees |-> "none", labels |-> <<>>,
    textContent |-> "", listContent |-> <<>> ]

\* The attachments of the trashed note: one image.
RawImage2 ==
  [ attachments |-> << [filePath |-> "img2.png", mimetype |-> "image/png"] >>,
    annotations |-> <<>> ]

\* Attachments outside the recognized shapes: a voice recording and an
\* annotation of a source that is not in LinkSources.
RawUnsupported ==
  [ attachments |-> << [filePath |-> "rec.3gp", mimetype |-> "audio/3gp"] >>,
    annotations |-> << [source |-> "MAPS", url |-> "http://m1", title |-> "m1"] >> ]

\* The record files of a Keep export explored: note t1 with attachments, with
\* unsupported attachments, and with rich content and no attachment; a trashed
\* note with an image, a coloured note, and a file whose JSON content is empty.
KeepFiles ==
  { [content |-> "json", data |-> PlainData, title |-> "t1", created_date |-> "d1",
     raw |-> r] : r \in {RawPool, RawUnsupported} }
  \cup
  { [content |-> "json", data |-> [PlainData EXCEPT !.textContentHtml = "<p>x</p>"],
     title |-> "t1", created_date |-> "d1", raw |-> RawNone],
    [content |-> "json", data |-> [PlainData EXCEPT !.isTrashed = TRUE], title |-> "t2",
     created_date |-> "d1", raw |-> RawImage2],
    [content |-> "json", data |-> [PlainData EXCEPT !.color = "RED"], title |-> "t2",
     created_date |-> "d1", raw |-> RawNone],
    [content |-> "empty", data |-> PlainData, title |-> "", created_date |-> "",
     raw |-> RawNone] }

\* The configuration these files are read with: trashed notes are skipped and
\* rich content is ignored (the defaults), a coloured note is an error.
KeepProcessing == [DefaultProcessing EXCEPT !["color"] = "error"]

\* _load_and_process_note 51-73 on one file: the ValueError of empty content,
\* else what _process_keep_note does; 'images' is what get_json_content recorded
\* when it decoded the file.  A skipped record keeps the title of its file.
load_and_process_note(file, proc) ==
  IF file.content = "empty"
  THEN [kind |-> "error", title |-> "", created_date |-> "", attachments |-> <<>>,
        error |-> "EmptyContent", images |-> {}, ignored |-> {}, skipped_by |-> "none"]
  ELSE LET res == process_keep_note(file.data, proc)
           ignored == { f \in Fields : res.ignore_actions[f] > 0 }
       IN  CASE res.kind = "error" ->
                  [kind |-> "error", title |-> "", created_date |-> "",
                   attachments |-> <<>>, error |-> "ProcessingAction",
                   images |-> RecordedImages(file.raw), ignored |-> ignored,
                   skipped_by |-> "none"]
             [] res.kind = "skip" ->
                  [kind |-> "skip", title |-> file.title, created_date |-> file.created_date,
                   attachments |-> <<>>, error |-> "none",
                   images |-> RecordedImages(file.raw), ignored |-> ignored,
                   skipped_by |-> res.evaluated[Len(res.evaluated)]]
             [] res.kind = "note" ->
                  [kind |-> "note", title |-> file.title, created_date |-> file.created_date,
                   attachments |-> process_attachments(file.raw), error |-> "none",
                   images |-> RecordedImages(file.raw), ignored |-> ignored,
                   skipped_by |-> "none"]

KeepRecords == { load_and_process_note(f, KeepProcessing) : f \in KeepFiles }

KeepSources == SeqsUpTo(KeepRecords, MaxRecords)

\* ------------------------------------------------------------ source cursor

\* Most reset() calls explored.
MaxResets == 1

InitCursor ==
  /\ PipelineIdle
  /\ IdentityIdle
  /\ RetryIdle
  /\ TransformIdle
  /\ origin \in KeepSources
  /\ source_pc = "new"
  /\ list_files_calls = 0
  /\ note_cache = {}
  /\ last_call = NoCall
  /\ visited = <<>>
  /\ previous_pass = <<>>
  /\ resets = 0

\* KeepNoteSource.__init__ 12-28.
Construct ==
  /\ source_pc = "new"
  /\ source_pc' = "ready"
  /\ list_files_calls' = list_files_calls + 1
  /\ file_list' = origin
  /\ cursor_index' = -1
  /\ note_cache' = {}
  /\ UNCHANGED << driver_vars, retry_vars, transform_vars, identity_vars, origin, last_call, visited,
                  previous_pass, resets >>

\* What fetch_next hands to its caller for a record.
Handed(rec) ==
  CASE rec.kind = "note"  -> "note"
    [] rec.kind = "skip"  -> "null"
    [] rec.kind = "error" -> "raised"

\* KeepNoteSource.fetch_next 30-44 with _load_and_process_note 51-73.
FetchNext ==
  /\ source_pc = "ready"
  /\ IF ~has_more
     THEN /\ last_call' = [op |-> "fetch_next", had_more |-> FALSE, result |-> "null"]
          /\ UNCHANGED << cursor_index, note_cache, visited >>
     ELSE /\ cursor_index' = MoveCursor(cursor_index, NextRecord)
          /\ visited' = Append(visited, cursor_index + 2)
          /\ last_call' = [op |-> "fetch_next", had_more |-> TRUE,
                           result |-> Handed(NextRecord)]
          /\ note_cache' = IF NextRecord.kind = "error" THEN note_cache
                           ELSE note_cache \cup {cursor_index + 2}
  /\ UNCHANGED << driver_vars, retry_vars, transform_vars, identity_vars, file_list, origin, source_pc,
                  list_files_calls, previous_pass, resets >>

\* KeepNoteSource.has_more 79-86, called from outside.
HasMore ==
  /\ source_pc = "ready"
  /\ last_call' = [op |-> "has_more", had_more |-> has_more,
                   result |-> IF has_more THEN "true" ELSE "false"]
  /\ UNCHANGED << pipeline_vars, retry_vars, transform_vars, identity_vars, origin, source_pc,
                  list_files_calls, note_cache, visited, previous_pass, resets >>

\* Mutation: reset leaves the cursor where it is.
Rewound_Nowhere(index) == index

\* Line 77: `self._cursor_index = -1`.
Rewound(index) == -1

\* KeepNoteSource.reset 75-77.
Reset ==
  /\ source_pc = "ready"
  /\ resets < MaxResets
  /\ resets' = resets + 1
  /\ cursor_index' = Rewound(cursor_index)
  /\ previous_pass' = visited
  /\ visited' = <<>>
  /\ last_call' = [op |-> "reset", had_more |-> has_more, result |-> "none"]
  /\ UNCHANGED << driver_vars, retry_vars, transform_vars, identity_vars, file_list, origin, source_pc,
                  list_files_calls, note_cache >>

NextCursor ==
  \/ Construct
  \/ FetchNext
  \/ HasMore
  \/ Reset

SpecCursor == InitCursor /\ [][NextCursor]_vars

\* ------------------------------------------- the pipeline over Keep files

\* The note ids a Keep source of KeepFiles can yield.
KeepNoteIds == { note_id(r) : r \in { k \in KeepRecords : k.kind = "note" } }

\* process_notes is called on a Keep source, with the image phase enabled or
\* not, on a destination whose images folder is empty or holds img2.png.
InitKeep ==
  /\ RetryIdle
  /\ IdentityIdle
  /\ TransformIdle
  /\ CursorIdle
  /\ file_list \in KeepSources
  /\ cursor_index = -1
  /\ \E N \in SUBSET KeepNoteIds : \E A \in SUBSET N :
       /\ notes_worksheet = InitialNotes(N)
       /\ attachments_worksheet = InitialAttachments(A)
  /\ existing_notes = BuildIndex(notes_worksheet, attachments_worksheet)
  /\ index_read = "ok"
  /\ batch_size \in BatchSizes
  /\ max_batches \in MaxBatchesChoices
  /\ ignore_errors \in BOOLEAN
  /\ staged_notes = <<>>
  /\ staged_attachments = <<>>
  /\ batched_note_id_count = 0
  /\ total_batches = 0
  /\ summary = NewSummary
  /\ pc = "loop"
  /\ calls = <<>>
  /\ run = 1
  /\ first = NoFirst
  /\ session_images = {}
  /\ sync_images \in BOOLEAN
  /\ images_folder \in {Folder({}), Folder({"img2.png"})}
  /\ NoImagePhase

\* Mutation: after a failed listing every image counts as present.
get_existing_images_AllPresent(listing) ==
  IF listing = "listed" THEN { f \in ImageNames : images_folder[f] > 0 } ELSE ImageNames

\* get_existing_images (sheets_target.py 266-278): the names in the images
\* folder, or the empty set when listing them failed.
get_existing_images(listing) ==
  IF listing = "listed" THEN { f \in ImageNames : images_folder[f] > 0 } ELSE {}

\* Lines 175-199: the session images are diffed against the images of the
\* target; with no session image, or none missing, the summary is returned.
StartImagePhase ==
  /\ pc = "images"
  /\ IF session_images = {}
     THEN /\ pc' = "done"
          /\ summary' = Returned(summary, total_batches)
          /\ UNCHANGED << missing_images, image_calls >>
     ELSE \E listing \in {"listed", "failed"} :
            /\ image_calls' = Append(image_calls,
                 [op |-> "get_existing_images", file |-> "", outcome |-> listing])
            /\ missing_images' = session_images \ get_existing_images(listing)
            /\ IF missing_images' = {}
               THEN pc' = "done" /\ summary' = Returned(summary, total_batches)
               ELSE pc' = "saving" /\ UNCHANGED summary
  /\ UNCHANGED << file_list, cursor_index, notes_worksheet, attachments_worksheet, index_read,
                  existing_notes, batch_size, max_batches, ignore_errors, staged_notes,
                  staged_attachments, batched_note_id_count, total_batches, calls, run, first,
                  session_images, sync_images, images_folder, image_counts,
                  retry_vars, transform_vars, identity_vars, cursor_vars >>

\* What one pass of the loop of lines 201-225 can meet: save_image returned
\* True, save_image returned False, get_image_bytes returned None,
\* get_image_bytes raised.
ImageOutcomes == {"saved", "rejected", "no_bytes", "raised"}

\* Lines 208-212: `if not ignore_errors: continue else: continue`.
MissingBytesFatal == FALSE

\* Lines 222-223: `if not ignore_errors: raise`.
ImageErrorFatal == ~ignore_errors

\* Lines 201-225: one pass of the loop over missing_images (a set: the order is
\* any), and lines 227-254 after the last.
SaveImage ==
  /\ pc = "saving"
  /\ \E f \in missing_images : \E outcome \in ImageOutcomes :
       /\ image_calls' = Append(image_calls, [op |-> "image", file |-> f, outcome |-> outcome])
       /\ image_counts' = IF outcome = "saved"
                          THEN [image_counts EXCEPT !.saved = @ + 1]
                          ELSE [image_counts EXCEPT !.failed = @ + 1]
       /\ images_folder' = IF outcome = "saved"
                           THEN [images_folder EXCEPT ![f] = @ + 1]
                           ELSE images_folder
       /\ missing_images' = missing_images \ {f}
       /\ pc' = IF \/ outcome = "raised" /\ ImageErrorFatal
                   \/ outcome = "no_bytes" /\ MissingBytesFatal
                THEN "aborted"
                ELSE IF missing_images' = {} THEN "done" ELSE "saving"
       /\ summary' = IF pc' = "done" THEN Returned(summary, total_batches) ELSE summary
  /\ UNCHANGED << file_list, cursor_index, notes_worksheet, attachments_worksheet, index_read,
                  existing_notes, batch_size, max_batches, ignore_errors, staged_notes,
                  staged_attachments, batched_note_id_count, total_batches, calls, run, first,
                  session_images, sync_images, retry_vars, transform_vars, identity_vars, cursor_vars >>

NextKeep ==
  \/ LoadError
  \/ SkippedNote
  \/ CompleteDuplicate
  \/ DuplicateWithoutAttachments
  \/ PartialMerge
  \/ NewNote
  \/ FinalFlush
  \/ StartImagePhase
  \/ SaveImage

SpecKeep == InitKeep /\ [][NextKeep]_vars

\* process_notes is one thread that runs until it returns or raises: a step
\* that can be taken is taken.
SpecKeepFair == SpecKeep /\ WF_vars(NextKeep)

\* ------------------------------------------------- vocabulary of the claims

Last(seq) == seq[Len(seq)]

IsNote(rec) == rec.kind = "note"

\* Rule 1 of the dedup policy: the identifier is not in the index.
IsNew(rec) == IsNote(rec) /\ Digest[<<rec.title, rec.created_date>>] \notin DOMAIN existing_notes

\* Rule 3: in the index without attachments, the incoming note has some.
IsMerge(rec) ==
  /\ IsNote(rec)
  /\ Digest[<<rec.title, rec.created_date>>] \in DOMAIN existing_notes
  /\ ~existing_notes[Digest[<<rec.title, rec.created_date>>]]
  /\ rec.attachments # <<>>

\* Rules 2 and 4: discarded as a duplicate.
IsDiscard(rec) ==
  /\ IsNote(rec)
  /\ Digest[<<rec.title, rec.created_date>>] \in DOMAIN existing_notes
  /\ (existing_notes[Digest[<<rec.title, rec.created_date>>]] \/ rec.attachments = <<>>)

\* Identifier column of the note rows, (owner, file) columns of the attachment
\* rows, that the records file_list[lo..hi] are to stage.
RECURSIVE NoteIdsDue(_, _)
NoteIdsDue(lo, hi) ==
  IF lo > hi THEN <<>>
  ELSE (IF IsNew(file_list[lo])
        THEN << Digest[<<file_list[lo].title, file_list[lo].created_date>>] >>
        ELSE <<>>) \o NoteIdsDue(lo + 1, hi)

OwnedFiles(rec) ==
  [j \in 1..Len(rec.attachments) |->
     << Digest[<<rec.title, rec.created_date>>], rec.attachments[j].File >>]

RECURSIVE AttachmentsDue(_, _)
AttachmentsDue(lo, hi) ==
  IF lo > hi THEN <<>>
  ELSE (IF IsNew(file_list[lo]) \/ IsMerge(file_list[lo])
        THEN OwnedFiles(file_list[lo])
        ELSE <<>>) \o AttachmentsDue(lo + 1, hi)

IdsOf(rows) == [i \in 1..Len(rows) |-> rows[i].ID]

OwnersOf(rows) == [i \in 1..Len(rows) |-> << rows[i].Note, rows[i].File >>]

\* The records (1-based positions in file_list) read between call k-1 and call k.
CallLo(cs, k) == IF k = 1 THEN 1 ELSE cs[k - 1].cursor_index + 2

CallHi(cs, k) == cs[k].cursor_index + 1

CountIn(lo, hi, P(_)) == Cardinality({ i \in lo..hi : P(file_list[i]) })

Occurrences(seq, x) == Cardinality({ i \in 1..Len(seq) : seq[i] = x })

\* The first run read the whole source and returned.
FirstRunComplete == first.pc = "done" /\ first.cursor_index = Len(file_list) - 1

\* ------------------------------------------------------------------ claims

\* C1: for any source and any initial destination, after a complete first
\* run, a second run over the same source, with the index rebuilt from the
\* destination, stages and writes nothing, reports imported = 0 and counts
\* every record that yields a note as a duplicate.  (Refuted from the
\* destination of FreshNotes: the index builder takes the first note row for
\* the header row.)
C1_IdempotentRerun ==
  (run = 2 /\ FirstRunComplete) =>
     /\ calls = <<>>
     /\ staged_notes = <<>> /\ staged_attachments = <<>>
     /\ notes_worksheet = first.notes
     /\ attachments_worksheet = first.attachments
     /\ summary.imported = 0
     /\ summary.attachments_added = 0
     /\ summary.duplicates = CountIn(1, cursor_index + 1, IsNote)

\* C2: every write_notes_and_attachments call carries, for the records read
\* since the previous call, exactly one note row per new note and one
\* attachment row per attachment of each new or partially merged note; and
\* every attachment row is owned by a note row of the same call or by an
\* identifier the index holds with hasAttachments = false.
C2_NoteWithItsAttachments ==
  \A k \in 1..Len(calls) :
    /\ IdsOf(calls[k].notes) = NoteIdsDue(CallLo(calls, k), CallHi(calls, k))
    /\ OwnersOf(calls[k].attachments) = AttachmentsDue(CallLo(calls, k), CallHi(calls, k))
    /\ \A j \in 1..Len(calls[k].attachments) :
         \/ \E i \in 1..Len(calls[k].notes) : calls[k].notes[i].ID = calls[k].attachments[j].Note
         \/ /\ calls[k].attachments[j].Note \in DOMAIN existing_notes
            /\ ~existing_notes[calls[k].attachments[j].Note]

C2_Witness ==
  \E k \in 1..Len(calls) :
    /\ Len(calls[k].notes) >= 1
    /\ Len(calls[k].attachments) > Len(AttachmentPool)
    /\ \E j \in 1..Len(calls[k].attachments) :
         \A i \in 1..Len(calls[k].notes) : calls[k].notes[i].ID # calls[k].attachments[j].Note

\* C3: a note whose identifier is in the index with hasAttachments = true, or
\* with hasAttachments = false while the note has no attachments, stages
\* nothing; duplicates grows by exactly 1 and imported is unchanged.
C3_DuplicateDiscarded ==
  [][ (pc = "loop" /\ has_more /\ IsDiscard(NextRecord))
        => /\ staged_notes' = staged_notes
           /\ staged_attachments' = staged_attachments
           /\ calls' = calls
           /\ notes_worksheet' = notes_worksheet
           /\ attachments_worksheet' = attachments_worksheet
           /\ summary'.duplicates = summary.duplicates + 1
           /\ summary'.imported = summary.imported ]_vars

C3_Witness ==
  /\ run = 1 /\ pc = "loop"
  /\ summary.duplicates = 2
  /\ staged_notes # <<>>
  /\ \E i \in 1..(cursor_index + 1) :
       IsDiscard(file_list[i]) /\ file_list[i].attachments # <<>>
  /\ \E i \in 1..(cursor_index + 1) :
       IsDiscard(file_list[i]) /\ file_list[i].attachments = <<>>

\* What the current iteration handed on: the rows of the call it made, or the
\* staged rows if it made none.
HandedNotes == IF calls' # calls THEN Last(calls').notes ELSE staged_notes'

HandedAttachments == IF calls' # calls THEN Last(calls').attachments ELSE staged_attachments'

\* C4: a partial merge stages one attachment row per attachment, each owned by
\* the existing identifier, stages no note row, and adds 1 to attachments_added.
C4_PartialMerge ==
  [][ (pc = "loop" /\ has_more /\ IsMerge(NextRecord))
        => /\ HandedNotes = staged_notes
           /\ OwnersOf(HandedAttachments) = OwnersOf(staged_attachments) \o OwnedFiles(NextRecord)
           /\ summary'.attachments_added = summary.attachments_added + 1 ]_vars

C4_Witness ==
  /\ run = 1
  /\ summary.attachments_added = 1
  /\ staged_notes # <<>>
  /\ \E j \in 1..Len(staged_attachments) :
       /\ staged_attachments[j].Note \in DOMAIN existing_notes
       /\ \A i \in 1..Len(staged_notes) : staged_notes[i].ID # staged_attachments[j].Note

\* C5: within a run the index is never changed, so a note staged earlier in
\* the run is still looked up as absent.
C5_IndexNeverMutated ==
  [][ run' = run => existing_notes' = existing_notes ]_vars

C5_Witness ==
  /\ Len(staged_notes) = 2
  /\ staged_notes[1].ID = staged_notes[2].ID
  /\ staged_notes[1].ID \notin DOMAIN existing_notes

\* An iteration that stages something: a new note or a partial merge.
StagesWrites(rec) == IsNew(rec) \/ IsMerge(rec)

\* C6 as stated: a flush issued by the threshold carries exactly batch-size
\* note rows, partial merges not counting toward the threshold.
C6_AsStated ==
  /\ pc = "loop" => Len(staged_notes) < batch_size
  /\ \A k \in 1..Len(calls) :
       calls[k].trigger = "batch" => Len(calls[k].notes) = batch_size

\* C6, amended: the loop flushes when, and only when, the number of records
\* that staged writes since the last flush (new notes and partial merges
\* alike) reaches the batch size; attachment rows are not counted, and a
\* threshold flush carries batch-size note rows less one per partial merge.
C6_FlushAtThreshold ==
  /\ pc = "loop" =>
       /\ batched_note_id_count < batch_size
       /\ batched_note_id_count =
            CountIn(IF calls = <<>> THEN 1 ELSE Last(calls).cursor_index + 2,
                    cursor_index + 1, StagesWrites)
  /\ \A k \in 1..Len(calls) :
       /\ calls[k].trigger = "batch" =>
            /\ CountIn(CallLo(calls, k), CallHi(calls, k), StagesWrites) = batch_size
            /\ StagesWrites(file_list[CallHi(calls, k)])
            /\ Len(calls[k].notes) =
                 batch_size - CountIn(CallLo(calls, k), CallHi(calls, k), IsMerge)
       /\ calls[k].trigger = "final" =>
            CountIn(CallLo(calls, k), CallHi(calls, k), StagesWrites) < batch_size

C6_Witness ==
  \E k \in 1..Len(calls) :
    /\ calls[k].trigger = "batch"
    /\ calls[k].outcome = "ok"
    /\ batch_size = 2
    /\ Len(calls[k].notes) = 1
    /\ Len(calls[k].attachments) = 2 * Len(AttachmentPool)

Ceil(k, B) == (k + B - 1) \div B

Importable == CountIn(1, Len(file_list), IsNote)

\* C7: with an empty index, no max-batch limit and k >= 1 importable records,
\* a run makes exactly ceil(k / batch_size) write calls and reports that
\* number as batches_completed.
C7_BatchBoundary ==
  (pc = "done" /\ DOMAIN existing_notes = {} /\ max_batches <= 0 /\ Importable >= 1) =>
     /\ Len(calls) = Ceil(Importable, batch_size)
     /\ summary.batches_completed = Ceil(Importable, batch_size)

C7_Witness ==
  /\ pc = "done" /\ DOMAIN existing_notes = {} /\ max_batches = -1
  /\ Importable = 3
  /\ batch_size = 2
  /\ Len(calls) = 2
  /\ calls[1].trigger = "batch" /\ calls[2].trigger = "final"

RECURSIVE WrittenNotes(_)
WrittenNotes(cs) == IF cs = <<>> THEN <<>> ELSE IdsOf(Head(cs).notes) \o WrittenNotes(Tail(cs))

RECURSIVE WrittenAttachments(_)
WrittenAttachments(cs) ==
  IF cs = <<>> THEN <<>> ELSE OwnersOf(Head(cs).attachments) \o WrittenAttachments(Tail(cs))

NoWriteFailed == \A k \in 1..Len(calls) : calls[k].outcome = "ok"

\* C8 as stated: in a run in which no write fails, once the run is over every
\* row it staged has been passed to exactly one call.
C8_AsStated ==
  (NoWriteFailed /\ pc \in {"done", "aborted"}) =>
     /\ WrittenNotes(calls) = NoteIdsDue(1, cursor_index + 1)
     /\ WrittenAttachments(calls) = AttachmentsDue(1, cursor_index + 1)

\* C8, amended: in a run that returns (no write fails, no load error aborts
\* it) every staged row is passed to exactly one call; while the loop runs,
\* and when a load error aborts it, the rows are either in one earlier call
\* or still staged and in no call; a successful
\* threshold flush leaves both staged sequences empty; every successful
\* flush adds exactly 1 to the batch counter; the loop stopped by the
\* max-batch limit leaves nothing staged.
C8_EveryRowFlushedOnce ==
  /\ pc \in {"loop", "broke", "done"} => NoWriteFailed
  /\ (NoWriteFailed /\ pc # "done") =>
       /\ WrittenNotes(calls) \o IdsOf(staged_notes) = NoteIdsDue(1, cursor_index + 1)
       /\ WrittenAttachments(calls) \o OwnersOf(staged_attachments)
            = AttachmentsDue(1, cursor_index + 1)
  /\ pc = "done" =>
       /\ WrittenNotes(calls) = NoteIdsDue(1, cursor_index + 1)
       /\ WrittenAttachments(calls) = AttachmentsDue(1, cursor_index + 1)
  /\ NoWriteFailed => total_batches = Len(calls)
  /\ (calls # <<>> /\ Last(calls).trigger = "batch" /\ Last(calls).outcome = "ok"
        /\ Last(calls).cursor_index = cursor_index) =>
       staged_notes = <<>> /\ staged_attachments = <<>>
  /\ pc = "broke" => staged_notes = <<>> /\ staged_attachments = <<>>

C8_Witness ==
  /\ pc = "done" /\ run = 1
  /\ Len(calls) = 2
  /\ calls[1].trigger = "batch" /\ calls[2].trigger = "final"
  /\ Len(calls[1].notes) = 2
  /\ Len(calls[2].attachments) = Len(AttachmentPool)

\* C9: with max_batches > 0, once max_batches batches are completed no
\* further record is fetched although records remain, nothing is left staged,
\* the run returns, and it reports batches_completed <= max_batches and
\* imported <= max_batches * batch_size.
C9_Limit ==
  /\ (max_batches > 0 /\ total_batches >= max_batches) =>
       /\ pc \in {"broke", "done"}
       /\ cursor_index = Last(calls).cursor_index
  /\ pc = "broke" => staged_notes = <<>> /\ staged_attachments = <<>>
  /\ (max_batches > 0 /\ pc = "done") =>
       /\ summary.batches_completed <= max_batches
       /\ summary.imported <= max_batches * batch_size

C9_MaxBatches == []C9_Limit /\ [][pc = "broke" => pc' = "done"]_vars

C9_Witness ==
  /\ pc = "done"
  /\ max_batches = 1
  /\ summary.batches_completed = 1
  /\ batch_size = 2
  /\ summary.imported = 2
  /\ has_more
  /\ IsNote(NextRecord)

DistinctIds ==
  \A i, j \in 1..Len(file_list) :
    (i # j /\ IsNote(file_list[i]) /\ IsNote(file_list[j])) =>
       Digest[<<file_list[i].title, file_list[i].created_date>>]
         # Digest[<<file_list[j].title, file_list[j].created_date>>]

\* The first run was aborted by a flush whose note rows were appended and
\* whose attachment rows were not.
FailedMidFlush ==
  /\ first.pc = "aborted"
  /\ first.calls # <<>>
  /\ Last(first.calls).outcome = "fail_attachments"

RecordOf(nid) ==
  CHOOSE rec \in { file_list[i] : i \in 1..Len(file_list) } :
    IsNote(rec) /\ Digest[<<rec.title, rec.created_date>>] = nid

\* C10: after a first run aborted between the note append and the attachment
\* append of a flush, a complete second run over a source of pairwise
\* distinct identifiers writes no note row that is already at the
\* destination, stages the attachments of each note row of the failed flush
\* as a partial merge, and leaves every source note with exactly one note row.
\* (Refuted from the destination of FreshNotes, as C1 is.)
C10_RerunAfterPartialFlush ==
  (run = 2 /\ DistinctIds /\ FailedMidFlush) =>
     /\ \A i \in 1..Len(WrittenNotes(calls)) :
          Occurrences(IdsOf(first.notes), WrittenNotes(calls)[i]) = 0
     /\ (pc = "done" /\ ~has_more) =>
          /\ \A i \in 1..Len(Last(first.calls).notes) :
               LET rec == RecordOf(Last(first.calls).notes[i].ID)
               IN  /\ IsMerge(rec) \/ rec.attachments = <<>>
                   /\ \A j \in 1..Len(rec.attachments) :
                        /\ Occurrences(WrittenAttachments(calls), OwnedFiles(rec)[j]) = 1
                        /\ Occurrences(OwnersOf(attachments_worksheet), OwnedFiles(rec)[j]) = 1
          /\ \A i \in 1..Len(file_list) :
               IsNote(file_list[i]) =>
                 Occurrences(IdsOf(notes_worksheet),
                             Digest[<<file_list[i].title, file_list[i].created_date>>]) = 1

\* C11: an error that is not a rate-limit signal is never retried: once the
\* operation has raised one, it was invoked exactly once more than it was
\* slept for, no sleep follows, and that error is what the caller gets; raised
\* by the first invocation, the operation has been invoked once and the
\* executor has slept zero times.
C11_PermanentNotRetried ==
  (invoked >= 1 /\ operation[invoked] \in Errors /\ ~Contains429(operation[invoked])) =>
     /\ retry_pc = "raised"
     /\ raised = operation[invoked]
     /\ invoked = 1 => sleeps = 0

\* The operation raised a rate-limit error on each of its first n invocations.
TransientUpTo(n) == \A i \in 1..n : operation[i] \in Errors /\ Contains429(operation[i])

\* C12: the executor terminates: every step is an invocation or a sleep, at
\* most max_retries + 1 invocations and max_retries sleeps are made; failing
\* with a transient error on every attempt, the operation is invoked
\* max_retries + 1 times with max_retries sleeps and the last error is
\* re-raised; succeeding on attempt k (after k transient failures), its result
\* is returned after exactly k sleeps and k + 1 invocations.
C12_Counts ==
  /\ invoked <= max_retries + 1
  /\ sleeps <= max_retries
  /\ retry_pc \in {"try", "sleep", "returned", "raised"}
  /\ retry_pc = "try" => invoked = attempt /\ sleeps = attempt
  /\ retry_pc = "sleep" => invoked = attempt + 1 /\ sleeps = attempt /\ attempt < max_retries
  /\ (TransientUpTo(max_retries + 1) /\ retry_pc \in {"returned", "raised"}) =>
       /\ retry_pc = "raised"
       /\ invoked = max_retries + 1
       /\ sleeps = max_retries
       /\ raised = operation[max_retries + 1]
  /\ \A k \in 0..max_retries :
       (TransientUpTo(k) /\ operation[k + 1] = "ok" /\ retry_pc \in {"returned", "raised"}) =>
          /\ retry_pc = "returned"
          /\ invoked = k + 1
          /\ sleeps = k
          /\ raised = "none"

C12_Terminates ==
  /\ []C12_Counts
  /\ [][ /\ invoked' + sleeps' = invoked + sleeps + 1
         /\ retry_pc \notin {"returned", "raised"} ]_vars

C12_Witness ==
  /\ retry_pc = "raised"
  /\ max_retries = MaxRetries
  /\ invoked = MaxRetries + 1
  /\ sleeps = MaxRetries
  /\ TransientUpTo(max_retries + 1)

PositionOf(field) == CHOOSE i \in 1..Len(FieldOrder) : FieldOrder[i] = field

\* The fields of the record that have a non-default value and an action other
\* than Label or Ignore.
Deciding(data, proc) == { f \in Flagged(data) : proc[f] \notin {"label", "ignore"} }

FirstDeciding(data, proc) ==
  CHOOSE f \in Deciding(data, proc) :
    \A g \in Deciding(data, proc) : PositionOf(f) <= PositionOf(g)

\* C14: when the first field, in the order trashed, archived, pinned, color,
\* rich content, shared, received, that has a non-default value and an action
\* other than Label or Ignore has action Skip, the transformer returns the
\* skip signal without raising, the fields after it are not evaluated, no
\* label is derived from them and their ignored-counts stay 0.
C14_SkipShortCircuit ==
  (result.kind # "none" /\ Deciding(note_data, processing) # {}
     /\ processing[FirstDeciding(note_data, processing)] = "skip") =>
     LET f == FirstDeciding(note_data, processing)
     IN  /\ result.kind = "skip"
         /\ result.error = "none"
         /\ result.evaluated = SubSeq(FieldOrder, 1, PositionOf(f))
         /\ \A g \in Fields :
              PositionOf(g) > PositionOf(f) =>
                /\ result.ignore_actions[g] = 0
                /\ \A i \in 1..Len(result.labels) : result.labels[i] # LabelOf(note_data, g)

C14_Witness ==
  /\ result.kind = "skip"
  /\ note_data.isTrashed /\ processing["trashed"] = "label"
  /\ note_data.isArchived /\ processing["archived"] = "skip"
  /\ note_data.color = "RED" /\ processing["color"] = "error"
  /\ result.kind = "skip"

\* C15: fetch_next returns null only at exhaustion: called while has_more()
\* is true it returns a note or raises, never null, also for a record a Skip
\* action discards.
C15_NullOnlyAtExhaustion ==
  (last_call.op = "fetch_next" /\ last_call.had_more) => last_call.result # "null"

\* C16: list_files is invoked exactly once, at construction, whatever calls
\* follow; reset changes the cursor index only, setting it before the first
\* record; after a reset fetch_next visits the same record names in the same
\* order as before.
C16_Enumeration ==
  /\ list_files_calls = (IF source_pc = "ready" THEN 1 ELSE 0)
  /\ source_pc = "ready" => file_list = origin
  /\ \A i \in 1..Len(visited) : visited[i] = i
  /\ \A i \in 1..Min(Len(visited), Len(previous_pass)) : visited[i] = previous_pass[i]

C16_ListedOnce ==
  /\ []C16_Enumeration
  /\ [][ resets' # resets =>
           /\ cursor_index' = -1
           /\ file_list' = file_list
           /\ note_cache' = note_cache
           /\ list_files_calls' = list_files_calls ]_vars

C16_Witness ==
  /\ resets = 1
  /\ Len(previous_pass) = MaxRecords
  /\ Len(visited) = MaxRecords
  /\ last_call.op = "has_more"
  /\ list_files_calls = 1

\* The record at the cursor raised a processing-action Error.
ActionErrorRead ==
  /\ cursor_index >= 0
  /\ file_list[cursor_index + 1].error = "ProcessingAction"

\* C13: a record with a non-default value in a field whose action is Error
\* aborts the run, with ignore_errors set as well as unset: once it is read the
\* run is aborted, no further record is fetched and nothing more is staged.
C13_ActionErrorFatal ==
  /\ [](ActionErrorRead => pc = "aborted")
  /\ [][ActionErrorRead => UNCHANGED << cursor_index, staged_notes, staged_attachments >>]_vars

\* The record at the cursor failed to load (empty content).
LoadErrorRead ==
  /\ cursor_index >= 0
  /\ file_list[cursor_index + 1].error = "EmptyContent"

\* C17: when loading a record raises, with ignore_errors unset the run is
\* aborted and no further record is fetched; with ignore_errors set the record
\* stages nothing, errors increases by exactly 1, and the loop goes on with the
\* next record.
C17_LoadErrorPolicy ==
  [][ (pc = "loop" /\ has_more /\ NextRecord.error = "EmptyContent") =>
        /\ cursor_index' = cursor_index + 1
        /\ summary'.errors = summary.errors + 1
        /\ UNCHANGED << staged_notes, staged_attachments, batched_note_id_count, calls,
                        notes_worksheet, attachments_worksheet >>
        /\ pc' = IF ignore_errors THEN "loop" ELSE "aborted" ]_vars

C17_LoadError ==
  /\ C17_LoadErrorPolicy
  /\ [][pc = "aborted" => UNCHANGED vars]_vars

\* A load error was survived and a later record was imported.
C17_Witness ==
  /\ ignore_errors
  /\ cursor_index >= 1
  /\ \E i \in 1..cursor_index : file_list[i].error = "EmptyContent"
  /\ summary.errors >= 1
  /\ summary.imported >= 1
  /\ pc = "done"

\* The image-phase entries about filename f with one of the outcomes given.
ImageEntries(f, outcomes) ==
  { i \in 1..Len(image_calls) :
      /\ image_calls[i].op = "image"
      /\ image_calls[i].file = f
      /\ image_calls[i].outcome \in outcomes }

\* Number of save_image calls for filename f.
SaveCalls(f) == Cardinality(ImageEntries(f, {"saved", "rejected"}))

ListCalls == { i \in 1..Len(image_calls) : image_calls[i].op = "get_existing_images" }

\* D: the names in the images folder when the image phase began.
DestinationImages ==
  { f \in ImageNames : images_folder[f] - Cardinality(ImageEntries(f, {"saved"})) > 0 }

\* C18: with session images S and destination images D, save_image is called
\* exactly once for every filename of S minus D whose bytes the source
\* supplies, never for a filename of S that is in D nor for one outside S.
C18_Reconciliation ==
  \A f \in ImageNames :
    /\ SaveCalls(f) <= 1
    /\ SaveCalls(f) = 1 => f \in session_images \ DestinationImages
    /\ (pc = "done" /\ sync_images /\ f \in session_images \ DestinationImages) =>
         /\ Cardinality(ImageEntries(f, ImageOutcomes)) = 1
         /\ SaveCalls(f) = 1 <=> ImageEntries(f, {"no_bytes", "raised"}) = {}

\* The image phase has begun.
ImagePhaseBegun == pc \in {"images", "saving"} \/ image_calls # <<>>

C19_Phase ==
  /\ ~sync_images => image_calls = <<>> /\ pc \notin {"images", "saving"}
  /\ Cardinality(ListCalls) <= 1
  /\ image_calls # <<>> => image_calls[1].op = "get_existing_images"
  /\ ImagePhaseBegun =>
       \/ staged_notes = <<>> /\ staged_attachments = <<>>
       \/ /\ calls # <<>>
          /\ Last(calls).trigger = "final"
          /\ Last(calls).outcome = "ok"
          /\ Last(calls).notes = staged_notes
          /\ Last(calls).attachments = staged_attachments

\* C19: the image phase runs at most once per run, only after the last
\* write_notes_and_attachments call (the remainder flush included) and only if
\* sync_images is set: without it neither get_existing_images nor save_image is
\* called, with it get_existing_images is called at most once and before any
\* save_image; once the phase has begun no record is fetched and nothing is
\* written.
C19_ImagePhaseLast ==
  /\ []C19_Phase
  /\ [][ ImagePhaseBegun => UNCHANGED << calls, cursor_index, notes_worksheet,
                                        attachments_worksheet >> ]_vars
  /\ [][ image_calls' # image_calls => pc \in {"images", "saving"} ]_vars

\* The remainder was flushed after a batch flush, then an image was saved.
C19_Witness ==
  /\ sync_images
  /\ pc = "done"
  /\ Len(calls) >= 2
  /\ Last(calls).trigger = "final"
  /\ Cardinality(ListCalls) = 1
  /\ \E f \in ImageNames : SaveCalls(f) = 1

\* C20: when the source cannot supply the bytes of a missing image the failure
\* is counted as failed; with ignore_errors set reconciliation goes on with the
\* next missing image, with ignore_errors unset the run aborts.
C20_MissingBytes ==
  [][ (image_calls' # image_calls /\ Last(image_calls').outcome = "no_bytes") =>
        /\ image_counts'.failed = image_counts.failed + 1
        /\ IF ignore_errors THEN pc' \in {"saving", "done"} ELSE pc' = "aborted" ]_vars

\* The images of the records decoded so far in the run.
DecodedImages == UNION { file_list[i].images : i \in 1..(cursor_index + 1) }

\* C21: the session image set only grows during a run; it holds the image
\* filenames of every record decoded so far, whether the record was imported,
\* discarded by Skip or discarded as a duplicate, and of no other record.
C21_SessionImages ==
  /\ [](session_images = DecodedImages)
  /\ [][session_images \subseteq session_images']_vars

\* The image phase starts with the image of a skipped record and the image of
\* a duplicate in the set.
C21_Witness ==
  /\ pc = "images"
  /\ summary.duplicates >= 1
  /\ \E i \in 1..(cursor_index + 1) : file_list[i].kind = "skip" /\ file_list[i].images # {}
  /\ session_images = {"img1.png", "img2.png"}

\* The record at the cursor carries the unsupported attachments.
UnsupportedRead ==
  /\ cursor_index >= 0
  /\ \E i \in 1..Len(file_list[cursor_index + 1].attachments) :
       file_list[cursor_index + 1].attachments[i].File = "rec.3gp"

\* C22: a record carrying an attachment that is not image-typed, or an
\* annotation of a source outside the list, aborts the run whatever
\* ignore_errors is; the attachment is never staged or written as an Image or
\* a Link.
C22_UnsupportedFatal ==
  /\ UnsupportedRead => pc = "aborted"
  /\ \A i \in 1..Len(staged_attachments) :
       staged_attachments[i].File \notin {"rec.3gp", "http://m1"}
  /\ \A i \in 1..Len(attachments_worksheet) :
       attachments_worksheet[i].File \notin {"rec.3gp", "http://m1"}

\* The checklist rendering: one line per item, the glyph of a checked or an
\* unchecked item followed by the item text.
Rendering(list_content) ==
  [i \in 1..Len(list_content) |->
     << IF list_content[i].isChecked THEN "checked" ELSE "unchecked", list_content[i].text >>]

\* C23: if a record carries checklist items, the body of the output note is
\* exactly the checklist rendering, for every action of the rich-content field;
\* neither the plain text nor the raw rich content is part of the body.
C23_ChecklistBody ==
  (result.kind = "note" /\ note_data.listContent # <<>>) =>
     result.content = Rendering(note_data.listContent)

\* The fields of the record with a non-default value and the given action, in
\* evaluation order.
FieldsWith(data, proc, action) ==
  LET Test(f) == has_value(data, f) /\ proc[f] = action
  IN  SelectSeq(FieldOrder, Test)

\* The labels the Label actions of the record derive, in evaluation order.
DerivedLabels(data, proc) ==
  LET fs == FieldsWith(data, proc, "label")
  IN  [i \in 1..Len(fs) |-> LabelOf(data, fs[i])]

C27_IgnoreAction ==
  result.kind # "none" =>
    \A i \in 1..Len(result.evaluated) :
      LET f == result.evaluated[i]
      IN  /\ ~has_value(note_data, f) => result.ignore_actions[f] = 0
          /\ (has_value(note_data, f) /\ processing[f] = "ignore") =>
               /\ result.ignore_actions[f] = 1
               /\ Occurrences(result.labels, LabelOf(note_data, f)) = 0
               /\ i < Len(FieldOrder) =>
                    /\ Len(result.evaluated) > i
                    /\ result.evaluated[i + 1] = FieldOrder[i + 1]
               /\ Deciding(note_data, processing) = {} => result.kind = "note"

C27_Witness ==
  /\ result.kind = "note"
  /\ note_data.isTrashed /\ processing["trashed"] = "ignore"
  /\ result.ignore_actions["trashed"] = 1
  /\ note_data.color # "DEFAULT" /\ processing["color"] = "label"
  /\ result.ignore_actions["color"] = 0

\* C28: in the label sequence of every output note the user-supplied labels of
\* the raw record come after all rule-derived labels, in their original order.
C28_UserLabelsLast ==
  result.kind = "note" =>
    LET n == Len(result.labels)
        u == Len(note_data.labels)
    IN  /\ n >= u
        /\ SubSeq(result.labels, n - u + 1, n) = note_data.labels
        /\ \A i \in 1..(n - u) : Occurrences(note_data.labels, result.labels[i]) = 0

\* The records fetched so far.
Fetched == 1..(cursor_index + 1)

CountOf(counts, field) == IF field \in DOMAIN counts THEN counts[field] ELSE 0

\* C24: the summary returned carries a per-field ignored-count map (for each
\* field, the number of processed records in which it had a non-default value
\* handled with Ignore) and a per-reason skipped-count map (for each field, the
\* number of records its Skip action discarded).
C24_IgnoredAndSkippedCounts ==
  pc = "done" =>
    \A f \in Fields :
      /\ CountOf(summary.ignored, f) = Cardinality({ i \in Fetched : f \in file_list[i].ignored })
      /\ CountOf(summary.skipped, f) = Cardinality({ i \in Fetched : file_list[i].skipped_by = f })

\* C25: at the end of a completed run, processed is the number of loop
\* iterations and equals imported + duplicates + errors + the number of records
\* skipped; a record discarded by Skip is in no row handed to the target.
C25_Counts ==
  pc = "done" =>
    /\ summary.processed = cursor_index + 1
    /\ summary.processed = summary.imported + summary.duplicates + summary.errors
                           + Cardinality({ i \in Fetched : file_list[i].kind = "skip" })
    /\ \A i \in Fetched : file_list[i].kind = "skip" =>
         \A k \in 1..Len(calls) :
           /\ \A n \in 1..Len(calls[k].notes) :
                calls[k].notes[n].ID # Digest[<< file_list[i].title, file_list[i].created_date >>]
           /\ \A n \in 1..Len(calls[k].attachments) :
                calls[k].attachments[n].Note #
                  Digest[<< file_list[i].title, file_list[i].created_date >>]

C25_Witness ==
  /\ pc = "done"
  /\ summary.processed = MaxRecords
  /\ summary.imported = 1
  /\ summary.errors = 1
  /\ \E i \in Fetched : file_list[i].kind = "skip"
  /\ calls # <<>>

\* --------------------------------------------------------------------- C30

\* min(base_delay * 2^k, max_delay), written out by repeated doubling.
RECURSIVE Schedule(_, _, _)
Schedule(base, cap, k) ==
  IF k = 0 THEN (IF base <= cap THEN base ELSE cap)
  ELSE LET prev == Schedule(base, cap, k - 1)
       IN  IF prev * 2 <= cap THEN prev * 2 ELSE cap

DefaultSchedule == <<1, 2, 4, 8, 16, 32, 64, 64>>

\* C30: the delay computed (before the jitter) for retry number k, counted
\* from 0, is min(base_delay * 2^k, max_delay); with base_delay = 1 and
\* max_delay = 64 the delays are 1, 2, 4, 8, 16, 32, 64, 64; in every call the
\* delays never decrease and never exceed max_delay.
C30_BackoffSchedule ==
  /\ \A k \in 1..Len(delays) :
       /\ delays[k] = Schedule(base_delay, max_delay, k - 1)
       /\ delays[k] <= max_delay
       /\ k > 1 => delays[k - 1] <= delays[k]
  /\ base_delay = 1 /\ max_delay = 64 =>
       \A k \in 1..Len(delays) : delays[k] = DefaultSchedule[k]

\* Eight retries with the defaults of base_delay and max_delay.
C30_Witness ==
  /\ base_delay = 1
  /\ max_delay = 64
  /\ delays = DefaultSchedule

\* --------------------------------------------------------------------- C29

\* C29: the note identifier depends only on (title, created timestamp): two
\* records with equal title and equal created timestamp get the same
\* identifier, whatever else they hold and in whichever run they are
\* converted, and every attachment of a note carries the identifier of its
\* note as owner.
C29_IdentifierPure ==
  /\ \A i, j \in 1..Len(converted) :
       ( /\ converted[i].data.title = converted[j].data.title
         /\ converted[i].data.createdTimestampUsec = converted[j].data.createdTimestampUsec )
       => converted[i].note_id = converted[j].note_id
  /\ \A i \in 1..Len(converted) : converted[i].owners \subseteq {converted[i].note_id}

\* --------------------------------------------------------------------- C31

Distance(a, b) == IF a >= b THEN a - b ELSE b - a

\* C31: for every retry the duration slept differs from the delay computed
\* before the jitter by at most 10% of that delay.
C31_JitterBound ==
  /\ Len(slept) = Len(delays)
  /\ \A k \in 1..Len(slept) : 10 * Distance(slept[k], Ms(delays[k])) <= Ms(delays[k])

\* Both copies have slept with a jitter that is not zero: sheets_target.py
\* below and above the delay, importer.py above it.
C31_Witness ==
  \/ /\ executor = "sheets_target"
     /\ Len(slept) >= 2
     /\ slept[1] < Ms(delays[1])
     /\ slept[2] > Ms(delays[2])
  \/ /\ executor = "importer"
     /\ Len(slept) >= 8
     /\ slept[1] > Ms(delays[1])
     /\ slept[8] = Ms(max_delay)

\* --------------------------------------------------------------------- C32

\* The non-empty cells of a column below its header row.
IdentifiersIn(col) == { col[i] : i \in 2..Len(col) } \ {""}

\* The index has just been built from the destination as it is.
IndexJustBuilt == index_read = "ok" /\ pc = "loop" /\ cursor_index = -1

\* C32: the keys of the index built from the destination are exactly the
\* non-empty identifiers of the note-identifier column; a key maps to true
\* if and only if the identifier is also in the owning-note column of the
\* attachments; an identifier found in the attachments only is no key.
C32_IndexContents ==
  IndexJustBuilt =>
    LET noted == IdentifiersIn(ColA(notes_worksheet))
        owners == IdentifiersIn(ColB(attachments_worksheet))
    IN  /\ DOMAIN existing_notes = noted
        /\ \A k \in DOMAIN existing_notes : existing_notes[k] <=> k \in owners
        /\ \A k \in owners \ noted : k \notin DOMAIN existing_notes

\* --------------------------------------------------------------------- C40

IndexReadFailed == index_read \in {"col_a_raised", "col_b_raised"}

\* C40: when reading the note-identifier column or the attachment column
\* raises while the index is built, the index is reset to empty and the run
\* goes on: every record that yields a note is taken as a new import (none is
\* counted as a duplicate or merged), also one whose row is at the
\* destination already.
C40_IndexReadFailure ==
  /\ [](IndexReadFailed =>
         /\ existing_notes = EmptyIndex
         /\ summary.duplicates = 0
         /\ summary.attachments_added = 0
         /\ summary.imported = Cardinality({ i \in Fetched : IsNote(file_list[i]) }))
  /\ [][pc = "index" /\ IndexReadFailed' => pc' = "loop"]_vars

\* After a failed read a note whose row was at the destination has been
\* written there a second time.
C40_Witness ==
  /\ IndexReadFailed
  /\ pc = "done"
  /\ \E i, j \in 2..Len(notes_worksheet) :
       /\ i < j
       /\ notes_worksheet[i].ID = notes_worksheet[j].ID
       /\ notes_worksheet[i].Title = "old"
       /\ notes_worksheet[j].Title # "old"

\* --------------------------------------------------------------------- C33

\* The last write_notes_and_attachments call raised.
FlushFailed == calls # <<>> /\ Last(calls).outcome # "ok"

\* C33: when write_notes_and_attachments raises during a flush, process_notes
\* propagates the error whether ignore_errors is set or not: only the last
\* call of a run can have failed, the run is then aborted, and nothing
\* follows: no call writes the batch again, no record is fetched, no batch is
\* flushed and the image phase does not run.
C33_FlushFailure ==
  /\ [](\A k \in 1..Len(calls) :
          calls[k].outcome # "ok" => k = Len(calls) /\ pc = "aborted" /\ image_calls = <<>>)
  /\ [][FlushFailed => UNCHANGED << cursor_index, calls, notes_worksheet, attachments_worksheet,
                                    image_calls, images_folder, summary, pc >>]_vars

\* A flush failed with ignore_errors set and the image phase enabled, while
\* records were left to read and images to reconcile.
C33_Witness ==
  /\ FlushFailed
  /\ ignore_errors
  /\ sync_images
  /\ has_more
  /\ session_images # {}

\* --------------------------------------------------------------------- C34

\* C34: within one flush the note rows are appended before the attachment
\* rows, each append on its own: a call whose note append failed appends
\* nothing at all, a call whose attachment append failed has appended its
\* note rows, so attachment rows reach the destination only in a call whose
\* note rows were written.
C34_NotesBeforeAttachments ==
  [][ Len(calls') > Len(calls) =>
        LET call == Last(calls')
            notes_written == IF call.outcome = "fail_notes" THEN <<>> ELSE call.notes
            attachments_written == IF call.outcome = "ok" THEN call.attachments ELSE <<>>
        IN  /\ notes_worksheet' = notes_worksheet \o notes_written
            /\ attachments_worksheet' = attachments_worksheet \o attachments_written
            /\ attachments_worksheet' # attachments_worksheet => notes_written = call.notes ]_vars

\* A flush of note rows and attachment rows whose note append failed.
C34_Witness ==
  /\ calls # <<>>
  /\ Last(calls).outcome = "fail_notes"
  /\ Last(calls).attachments # <<>>

\* --------------------------------------------------------------------- C35

\* C35: the main loop of process_notes ends for every finite record list.
\* Every iteration, also one whose record fails to load, moves the cursor
\* forward by exactly one record, the cursor never moves otherwise, and the
\* loop makes no more iterations than there are records, with ignore_errors
\* set as well as unset.
C35_LoopTerminates ==
  /\ <>(pc # "loop")
  /\ [](summary.processed <= Len(file_list) /\ cursor_index <= Len(file_list) - 1)
  /\ [][pc = "loop" /\ has_more => cursor_index' = cursor_index + 1]_vars
  /\ [][cursor_index' # cursor_index => pc = "loop" /\ cursor_index' = cursor_index + 1]_vars
  /\ [][summary'.processed # summary.processed =>
          summary'.processed = summary.processed + 1 /\ cursor_index' = cursor_index + 1]_vars

\* A run over MaxRecords records that went on after a record failed to load
\* and left the loop at the end of the list.
C35_Witness ==
  /\ pc = "done"
  /\ ignore_errors
  /\ Len(file_list) = MaxRecords
  /\ summary.errors > 0
  /\ summary.processed = Len(file_list)

\* --------------------------------------------------------------------- C36

\* C36: imported counts the partial merges as well as the new notes: at every
\* point of a run imported = (note rows staged so far) + attachments_added,
\* and a note whose row existed and that only received attachments adds 1 to
\* imported and 1 to attachments_added.
C36_ImportedCountsMerges ==
  /\ [](summary.imported = CountIn(1, cursor_index + 1, IsNew) + summary.attachments_added)
  /\ [][ (pc = "loop" /\ has_more /\ IsMerge(NextRecord)) =>
          /\ summary'.imported = summary.imported + 1
          /\ summary'.attachments_added = summary.attachments_added + 1
          /\ IdsOf(HandedNotes) = IdsOf(staged_notes) ]_vars

\* A completed run that staged a new note and merged attachments into an
\* existing one.
C36_Witness ==
  /\ pc = "done"
  /\ summary.attachments_added = 1
  /\ summary.imported = 2

\* --------------------------------------------------------------------- C37

\* The note rows of identifier nid that the destination held before the run.
RowsBefore(nid) ==
  { i \in 2..Len(notes_worksheet) :
      notes_worksheet[i].ID = nid /\ notes_worksheet[i].Title = "old" }

\* The note rows of identifier nid written in this run.
RowsWritten(nid) ==
  { i \in 1..Len(notes_worksheet) :
      notes_worksheet[i].ID = nid /\ notes_worksheet[i].Title \in Titles }

\* The records read so far that yield a note of identifier nid.
RecordsOf(nid) == { i \in Fetched : IsNote(file_list[i]) /\ note_id(file_list[i]) = nid }

\* C37: nothing is deduplicated inside a run: an identifier the destination
\* did not hold when the index was built stays absent from the index for the
\* whole run, each record with that identifier is staged as a new note, and
\* a completed run has written one note row per such record.
C37_NoDedupWithinRun ==
  pc = "done" =>
    \A nid \in KeepNoteIds :
      RowsBefore(nid) = {} =>
        /\ nid \notin DOMAIN existing_notes
        /\ Cardinality(RowsWritten(nid)) = Cardinality(RecordsOf(nid))

\* A completed run that wrote two note rows of one identifier.
C37_Witness ==
  /\ pc = "done"
  /\ \E nid \in KeepNoteIds :
       /\ RowsBefore(nid) = {}
       /\ Cardinality(RowsWritten(nid)) = 2
       /\ Cardinality(RecordsOf(nid)) = 2

\* --------------------------------------------------------------------- C38

\* Listing the images of the destination failed in this run.
ListingFailed ==
  \E i \in ListCalls : image_calls[i].outcome = "failed"

\* C38 as stated: after a failed listing save_image is called for each
\* session image and the run does not abort.  (Refuted: no save_image call is
\* made for an image whose bytes the source does not supply, and a lookup or
\* upload that raises aborts the run when ignore_errors is unset.)
C38_AsStated ==
  ListingFailed =>
    /\ pc # "aborted"
    /\ pc = "done" => \A f \in session_images : SaveCalls(f) = 1

\* C38, amended: a failed listing is answered with the empty set and never
\* aborts the run, whatever ignore_errors is: every session image, those
\* already at the destination included, is then taken as missing and gets
\* one pass of the save loop, in which save_image is called unless the lookup
\* of its bytes returns nothing or raises; the run aborts afterwards only when
\* such a pass raises with ignore_errors unset.
C38_ListingFailure ==
  /\ [](ListingFailed =>
         /\ \A f \in session_images :
              /\ Cardinality(ImageEntries(f, ImageOutcomes)) = (IF f \in missing_images THEN 0 ELSE 1)
              /\ SaveCalls(f) = 1 <=> ImageEntries(f, {"saved", "rejected"}) # {}
         /\ pc = "done" => missing_images = {}
         /\ pc = "aborted" => ~ignore_errors /\ Last(image_calls).outcome = "raised")
  /\ [][ (~ListingFailed /\ ListingFailed') =>
           /\ missing_images' = session_images
           /\ session_images # {}
           /\ pc' = "saving" ]_vars

\* With ignore_errors unset the listing failed, the run went on to its end
\* and an image the destination held already was uploaded again.
C38_Witness ==
  /\ ListingFailed
  /\ ~ignore_errors
  /\ pc = "done"
  /\ images_folder["img2.png"] = 2

\* --------------------------------------------------------------------- C39

\* C39: process_notes never calls write_notes_and_attachments with no note
\* row and no attachment row, and the batches_completed it reports is the
\* number of write_notes_and_attachments calls it made in the run.
C39_NoEmptyWrite ==
  /\ \A k \in 1..Len(calls) : calls[k].notes # <<>> \/ calls[k].attachments # <<>>
  /\ pc = "done" => summary.batches_completed = Len(calls)

\* A run that read records and staged nothing returned without any call; a
\* run that flushed in the loop and at the end reported both calls.
C39_Witness ==
  /\ pc = "done"
  /\ \/ calls = <<>> /\ summary.duplicates > 0 /\ summary.batches_completed = 0
     \/ /\ Len(calls) = 2
        /\ calls[2].trigger = "final"
        /\ calls[2].notes = <<>>
        /\ summary.batches_completed = 2

====
